---- MODULE Spec2Model ----
(***************************************************************************)
(* Verification model of the voice-typing dictation pipeline:              *)
(*   - internal/transcription.go  (TranscriptionStack)                     *)
(*   - internal/deepgram.go       (DeepgramCallback.Message, stop flag)    *)
(*   - internal/textinjector      (TextInjector)                           *)
(*   - main.go                    (hotkey toggle, lock file, signals)      *)
(* Go strings are TLA+ strings; byte lengths are computed by GoLen.        *)
(***************************************************************************)
EXTENDS Integers, Sequences, FiniteSets, TLC

(***************************************************************************)
(* Bounds of the model.                                                    *)
(***************************************************************************)
MaxEvents == 4
NumProcs == 3
MaxCalls == 3
MaxWait == 2      \* checks of ds.connected in StartStreaming (50 in the code)
MaxFrames == 2    \* audio frames captured in a session
MaxSignals == 2   \* signals sent to the session's process from outside
MaxCallbacks == 102  \* calls of audioCallback on one AudioStream
StopKeys == 1     \* processes started with --stopkey, the last of Procs
MaxChannels == 2  \* input channels of a device

(***************************************************************************)
(* String helpers: the parts of Go's strings / strconv / regexp packages   *)
(* that the program uses.                                                  *)
(***************************************************************************)
CharAt(s, i) == SubSeq(s, i, i)

UpperToLower ==
  [c \in {"A","B","C","D","E","F","G","H","I","J","K","L","M",
          "N","O","P","Q","R","S","T","U","V","W","X","Y","Z"} |->
     CASE c = "A" -> "a" [] c = "B" -> "b" [] c = "C" -> "c" [] c = "D" -> "d"
       [] c = "E" -> "e" [] c = "F" -> "f" [] c = "G" -> "g" [] c = "H" -> "h"
       [] c = "I" -> "i" [] c = "J" -> "j" [] c = "K" -> "k" [] c = "L" -> "l"
       [] c = "M" -> "m" [] c = "N" -> "n" [] c = "O" -> "o" [] c = "P" -> "p"
       [] c = "Q" -> "q" [] c = "R" -> "r" [] c = "S" -> "s" [] c = "T" -> "t"
       [] c = "U" -> "u" [] c = "V" -> "v" [] c = "W" -> "w" [] c = "X" -> "x"
       [] c = "Y" -> "y" [] c = "Z" -> "z"]

RECURSIVE ToLower(_)
ToLower(s) ==
  IF s = "" THEN ""
  ELSE LET c == CharAt(s, 1)
       IN  (IF c \in DOMAIN UpperToLower THEN UpperToLower[c] ELSE c)
             \o ToLower(Tail(s))

IsSpace(c) == c \in {" ", "\n", "\t", "\r"}

RECURSIVE TrimLeft(_)
TrimLeft(s) ==
  IF s # "" /\ IsSpace(CharAt(s, 1)) THEN TrimLeft(Tail(s)) ELSE s

RECURSIVE TrimRight(_)
TrimRight(s) ==
  IF s # "" /\ IsSpace(CharAt(s, Len(s)))
    THEN TrimRight(SubSeq(s, 1, Len(s) - 1))
    ELSE s

TrimSpace(s) == TrimRight(TrimLeft(s))

HasPrefix(s, p) == Len(s) >= Len(p) /\ SubSeq(s, 1, Len(p)) = p

Contains(s, k) ==
  \E i \in 1..(Len(s) - Len(k) + 1) : SubSeq(s, i, i + Len(k) - 1) = k

\* strings.Fields: the maximal runs of non-space characters, in order.
RECURSIVE FieldsFrom(_, _)
FieldsFrom(s, cur) ==
  IF s = "" THEN (IF cur = "" THEN <<>> ELSE <<cur>>)
  ELSE IF IsSpace(CharAt(s, 1))
         THEN (IF cur = "" THEN <<>> ELSE <<cur>>) \o FieldsFrom(Tail(s), "")
         ELSE FieldsFrom(Tail(s), cur \o CharAt(s, 1))

Fields(s) == FieldsFrom(s, "")

RECURSIVE Join(_, _)
Join(parts, sep) ==
  IF Len(parts) = 0 THEN ""
  ELSE IF Len(parts) = 1 THEN parts[1]
  ELSE parts[1] \o sep \o Join(Tail(parts), sep)

\* len(s) in Go is the number of bytes of the UTF-8 encoding.
ByteWidth(c) == IF c \in {"é"} THEN 2 ELSE 1

RECURSIVE GoLen(_)
GoLen(s) == IF s = "" THEN 0 ELSE ByteWidth(CharAt(s, 1)) + GoLen(Tail(s))

Digits == {"0","1","2","3","4","5","6","7","8","9"}

DigitVal(c) ==
  CASE c = "0" -> 0 [] c = "1" -> 1 [] c = "2" -> 2 [] c = "3" -> 3
    [] c = "4" -> 4 [] c = "5" -> 5 [] c = "6" -> 6 [] c = "7" -> 7
    [] c = "8" -> 8 [] c = "9" -> 9

\* strconv.Atoi on a string of decimal digits.
RECURSIVE Atoi(_)
Atoi(d) ==
  IF d = "" THEN 0
  ELSE Atoi(SubSeq(d, 1, Len(d) - 1)) * 10 + DigitVal(CharAt(d, Len(d)))

\* The maximal run of digits at the start of s.
RECURSIVE DigitRun(_)
DigitRun(s) ==
  IF s # "" /\ CharAt(s, 1) \in Digits
    THEN CharAt(s, 1) \o DigitRun(Tail(s))
    ELSE ""

(***************************************************************************)
(* State.                                                                  *)
(***************************************************************************)
VARIABLES
  phrases,         \* TranscriptionStack.phrases
  concatenated,    \* TranscriptionStack.concatenated
  lastSentence,    \* TranscriptionStack.lastSentence
  stopRequested,   \* DeepgramService.stopRequested
  realTimeTyping,  \* DeepgramService.realTimeTyping
  displayServer,   \* TextInjector.displayServer
  availableTools,  \* TextInjector.availableTools (the keys mapped to true)
  silentMode,      \* TextInjector.silentMode
  typeWorks,       \* environment: the tools whose "type" command succeeds when run
  keyWorks,        \* environment: the tools whose "key" command succeeds when run
  screen,          \* text of the focused field: net effect of the injected keys
  clipboard,       \* content of the system clipboard
  events,          \* number of final transcripts the session has handled
  injOK,           \* every injector call since the session started returned nil
  last,            \* the last event handled: [kind, transcript, final, count, keys]
  snap,            \* the buffer, stop flag and screen before the last event
  scen,            \* progress through the end-to-end scenario, -1 when off it
  pc,              \* per process: where it is in main
  lock,            \* LOCK_FILE: <<>> when absent, else <<content>>
  handled,         \* per process: signal.Notify has been called
  sigChan,         \* per process: the signals buffered in sigChan (capacity 1)
  handlerDone,     \* per process: the signal goroutine has received and returned
  cancelled,       \* per process: the session context is cancelled
  found,           \* per process: the PIDs pgrep printed
  lockPid,         \* per process: the PID read from the lock file
  recording,       \* per process: SpeechService.recording
  initializing,    \* per process: SpeechService.initializing
  duringRec,       \* per process: it was launched while a session was Recording
  stopCause,       \* per process: the case of the monitoring loop that returned
  calls,           \* number of calls made to the injector from outside a session
  ilast,           \* the last such call: [text, silentBefore, clipBefore, log, ok]
  mode,            \* the session's process: "hotkey" (--hotkey) or "default" (no flag)
  audio,           \* AudioStream: "none", "created", "started", "stopping" (Stop has
                   \* cancelled a.ctx) or "stopped"
  stopFailed,      \* AudioStream.Stop: stream.Stop or stream.Close reported an error
  wsClient,        \* DeepgramService.wsClient: "nil", "created" or "stopped"
  connected,       \* DeepgramService.connected
  stream,          \* the StartStreaming goroutine: "off", "create", "wait", "streaming", "done"
  waitI,           \* StartStreaming: i of the loop that waits for the connection
  dataChan,        \* AudioStream.dataChan: number of frames buffered
  dataClosed,      \* AudioStream.dataChan is closed
  frames,          \* number of frames the audio callback has been called with
  sentFrames,      \* number of frames wsClient.WriteBinary has sent
  streamCancelled, \* StartRecording: streamCancel() has been called
  streamErr,       \* StartRecording's channel streamErr: "empty", "nil" or "error"
  retErr,          \* what StartRecording returns: "none" (running), "nil" or the error
  reported,        \* runSingleSession has logged and notified the failure
  closed,          \* DeepgramService.Close has been called
  signals,         \* number of signals sent from outside
  pump,            \* how StartStreaming returned: [cause, err, stopped, writes]
  writeLog,        \* the outcomes of wsClient.WriteBinary in order: "ok" or "failed"
  callback,        \* AudioStream.audioCallback: [at, last, late]
  channels,        \* the channel count: [devices, default, requested, config, opened,
                   \* options, at], config the one AudioConfig.Channels that the
                   \* AudioStream and the DeepgramService both point to, opened and
                   \* options 0 until the device is opened and the options are built
  access,          \* calls on the TranscriptionStack (and through it the TextInjector):
                   \* [clear, message], Clear of StartRecording "todo", "running" or
                   \* "done", the Message callback "idle" or "running"
  flow             \* the frames by number: [queue, written, lost], queue the content
                   \* of dataChan in order, written the frames WriteBinary has sent,
                   \* lost the frames dropped, discarded or failed to send

stackVars == <<phrases, concatenated, lastSentence>>
serviceVars == <<stopRequested, realTimeTyping>>
injectorVars == <<displayServer, availableTools, silentMode>>
envVars == <<typeWorks, keyWorks, screen, clipboard>>
historyVars == <<events, injOK, last, snap, scen>>
dictationVars == <<stackVars, serviceVars, injectorVars, envVars, historyVars>>
procVars == <<pc, lock, handled, sigChan, handlerDone, cancelled, found, lockPid,
              recording, initializing, duringRec, stopCause>>
injectorCallVars == <<calls, ilast>>
sessionVars == <<mode, audio, stopFailed, wsClient, connected, stream, waitI, dataChan, flow,
                 dataClosed, frames, sentFrames, streamCancelled, streamErr, retErr,
                 reported, closed, signals, pump, writeLog, callback, access, channels>>
restVars == <<dictationVars, injectorCallVars, sessionVars>>
vars == <<dictationVars, procVars, injectorCallVars, sessionVars>>

(***************************************************************************)
(* TextInjector.  An injector operation maps e = [screen, clipboard,       *)
(* silentMode, ok, allOk] to what it leaves; ok is "the call returned a    *)
(* nil error".  Whether a run of an installed tool succeeds is a property  *)
(* of the environment (typeWorks, keyWorks).                               *)
(***************************************************************************)
DirectTools == {"xdotool", "ydotool", "wtype"}
ClipboardTools == {"wl-copy", "xclip", "xsel"}

DropLast(s, n) == IF n >= Len(s) THEN "" ELSE SubSeq(s, 1, Len(s) - n)

\* A command of a tool, or a call of the clipboard utility, has been run.
Ran(e, what, tool) == [e EXCEPT !.log = Append(@, <<what, tool>>)]

\* The number of key combinations run in a log.
KeyRuns(log) == Cardinality({i \in DOMAIN log : log[i][1] = "key"})

\* What a key combination does to the focused field once a tool has sent it.
KeyEffect(e, keys) ==
  CASE keys = <<"BackSpace">>       -> [e EXCEPT !.screen = DropLast(@, 1)]
    [] keys = <<"shift", "Return">> -> [e EXCEPT !.screen = @ \o "\n"]
    [] keys = <<"ctrl", "v">>       -> [e EXCEPT !.screen = @ \o e.clipboard]
    [] OTHER                        -> e

mapKeyForWtype(key) ==
  CASE key = "BackSpace" -> "backspace"
    [] key = "Return"    -> "enter"
    [] key = "shift"     -> "shift"
    [] OTHER             -> ""

\* executeKeyCombo builds a command (cmd != nil) for this tool and these keys.
executeKeyComboSupported(tool, keys) ==
  CASE tool = "xdotool" -> TRUE
    [] tool = "ydotool" -> TRUE
    [] tool = "wtype"   ->
         \/ Len(keys) = 1 /\ mapKeyForWtype(keys[1]) # ""
         \/ Len(keys) = 2 /\ keys[1] = "shift" /\ keys[2] = "Return"
    [] OTHER -> FALSE

KeyComboOrder ==
  IF displayServer = "wayland" THEN <<"ydotool", "wtype", "xdotool">>
                               ELSE <<"xdotool", "ydotool", "wtype">>

DirectTypingOrder ==
  IF displayServer = "wayland" THEN <<"wtype", "ydotool", "xdotool">>
                               ELSE <<"xdotool", "wtype", "ydotool">>

RECURSIVE KeyComboFrom(_, _, _)
KeyComboFrom(e, keys, tools) ==
  IF tools = <<>> THEN [e EXCEPT !.ok = FALSE]
  ELSE IF /\ Head(tools) \in availableTools
          /\ executeKeyComboSupported(Head(tools), keys)
          /\ Head(tools) \in keyWorks
    THEN [KeyEffect(Ran(e, "key", Head(tools)), keys) EXCEPT !.ok = TRUE]
    ELSE KeyComboFrom(IF /\ Head(tools) \in availableTools
                         /\ executeKeyComboSupported(Head(tools), keys)
                        THEN Ran(e, "key", Head(tools)) ELSE e,
                      keys, Tail(tools))

TypeKeyCombo(e, keys) == KeyComboFrom(e, keys, KeyComboOrder)

TypeNewline(e) == TypeKeyCombo(e, <<"shift", "Return">>)

TypeParagraphBreak(e) ==
  LET r == TypeKeyCombo(e, <<"shift", "Return">>)
  IN  IF r.ok THEN TypeKeyCombo(r, <<"shift", "Return">>) ELSE r

RECURSIVE TypeBackspaces(_, _)
TypeBackspaces(e, count) ==
  IF count <= 0 THEN [e EXCEPT !.ok = TRUE]
  ELSE LET r == TypeKeyCombo(e, <<"BackSpace">>)
       IN  IF r.ok THEN TypeBackspaces(r, count - 1) ELSE r

RECURSIVE DirectTypingFrom(_, _, _)
DirectTypingFrom(e, text, tools) ==
  IF tools = <<>> THEN [e EXCEPT !.ok = FALSE]
  ELSE IF Head(tools) \in availableTools /\ Head(tools) \in typeWorks
    THEN [Ran(e, "type", Head(tools)) EXCEPT !.screen = @ \o text, !.ok = TRUE]
    ELSE DirectTypingFrom(IF Head(tools) \in availableTools
                            THEN Ran(e, "type", Head(tools)) ELSE e,
                          text, Tail(tools))

\* A mutant of tryDirectTyping: the tools are tried in the order of X11 on
\* every display server.
tryDirectTyping_X11Order(e, text) ==
  DirectTypingFrom(e, text, <<"xdotool", "wtype", "ydotool">>)

tryDirectTyping(e, text) == DirectTypingFrom(e, text, DirectTypingOrder)

\* The clipboard library works when a clipboard utility is installed.
ClipboardAvailable == availableTools \cap ClipboardTools # {}

tryClipboardPaste(e, text) ==
  LET originalClip == IF ClipboardAvailable THEN e.clipboard ELSE ""
  IN  IF ~ClipboardAvailable
        THEN [e EXCEPT !.ok = FALSE]
        ELSE LET w == Ran(Ran(e, "clipboard", "read"), "clipboard", "write")
                 r == TypeKeyCombo([w EXCEPT !.clipboard = text], <<"ctrl", "v">>)
             IN  IF originalClip # ""
                   THEN [Ran(r, "clipboard", "write") EXCEPT !.clipboard = originalClip]
                   ELSE r

TypeText(e, text) ==
  IF text = "" THEN [e EXCEPT !.ok = TRUE]
  ELSE LET d == tryDirectTyping(e, text)
           c == tryClipboardPaste(d, text)
       IN  IF d.ok THEN d
           ELSE IF c.ok THEN c
           ELSE [c EXCEPT !.silentMode = TRUE]

(***************************************************************************)
(* TranscriptionStack.  st = [phrases, concatenated, lastSentence, e] is   *)
(* the stack together with the environment e of its injector; allOk in e   *)
(* records that every injector call made so far returned nil.              *)
(***************************************************************************)
isBreak(p) == p = "\n" \/ p = "\n\n"

notBreak(p) == ~isBreak(p)

\* Mutant: the break markers are not left out.
rebuildConcatenated_KeepsBreaks(ph) == Join(ph, "")

rebuildConcatenated(ph) == Join(SelectSeq(ph, notBreak), "")

\* Mutant: only a line break counts, a paragraph break does not.
lastWasLineBreak_OnlyNewline(ph) ==
  IF Len(ph) = 0 THEN FALSE ELSE ph[Len(ph)] = "\n"

lastWasLineBreak(ph) ==
  IF Len(ph) = 0 THEN FALSE ELSE isBreak(ph[Len(ph)])

\* The stack's view of one injector call: its error is dropped by the caller.
Called(r) == [r EXCEPT !.allOk = @ /\ r.ok]

containsKeywords(text, keywords) == \E k \in keywords : Contains(text, k)

\* Mutant: the concatenated string is not rebuilt.
handleUndoCommand_NoRebuild(st, rt) ==
  IF Len(st.phrases) = 0 THEN st
  ELSE [st EXCEPT !.phrases = SubSeq(st.phrases, 1, Len(st.phrases) - 1)]

\* A mutant of handleUndoCommand: on an empty stack one backspace is sent.
handleUndoCommand_NoGuard(st, rt) ==
  IF Len(st.phrases) = 0
    THEN [st EXCEPT !.e = IF rt THEN Called(TypeKeyCombo(@, <<"BackSpace">>)) ELSE @]
  ELSE
    LET removed == st.phrases[Len(st.phrases)]
        rest    == SubSeq(st.phrases, 1, Len(st.phrases) - 1)
        e2      ==
          IF ~rt THEN st.e
          ELSE IF removed = "\n" THEN Called(TypeKeyCombo(st.e, <<"BackSpace">>))
          ELSE IF removed = "\n\n"
            THEN Called(TypeKeyCombo(Called(TypeKeyCombo(st.e, <<"BackSpace">>)),
                                     <<"BackSpace">>))
          ELSE Called(TypeBackspaces(st.e, GoLen(removed)))
    IN  [st EXCEPT !.phrases = rest,
                   !.concatenated = rebuildConcatenated(rest),
                   !.e = e2]

handleUndoCommand(st, rt) ==
  IF Len(st.phrases) = 0 THEN st
  ELSE
    LET removed == st.phrases[Len(st.phrases)]
        rest    == SubSeq(st.phrases, 1, Len(st.phrases) - 1)
        e2      ==
          IF ~rt THEN st.e
          ELSE IF removed = "\n" THEN Called(TypeKeyCombo(st.e, <<"BackSpace">>))
          ELSE IF removed = "\n\n"
            THEN Called(TypeKeyCombo(Called(TypeKeyCombo(st.e, <<"BackSpace">>)),
                                     <<"BackSpace">>))
          ELSE Called(TypeBackspaces(st.e, GoLen(removed)))
    IN  [st EXCEPT !.phrases = rest,
                   !.concatenated = rebuildConcatenated(rest),
                   !.e = e2]

isUndoWordsCommand(sentence) ==
  \/ Contains(sentence, "undo word")
  \/ Contains(sentence, "undo last") /\ Contains(sentence, "word")

\* regexp `undo last (\d+) word`: the digits of the leftmost match, "" if none.
RECURSIVE UndoLastDigits(_)
UndoLastDigits(s) ==
  IF s = "" THEN ""
  ELSE LET d == IF HasPrefix(s, "undo last ")
                  THEN DigitRun(SubSeq(s, 11, Len(s))) ELSE ""
       IN  IF d # "" /\ HasPrefix(SubSeq(s, 11 + Len(d), Len(s)), " word")
             THEN d
             ELSE UndoLastDigits(Tail(s))

\* A mutant of wordNumbers: the map ends at nine.
wordNumbers_NoTen ==
  [w \in {"one","two","three","four","five","six","seven","eight","nine"} |->
     CASE w = "one" -> 1 [] w = "two" -> 2 [] w = "three" -> 3 [] w = "four" -> 4
       [] w = "five" -> 5 [] w = "six" -> 6 [] w = "seven" -> 7 [] w = "eight" -> 8
       [] w = "nine" -> 9]

wordNumbers ==
  [w \in {"one","two","three","four","five","six","seven","eight","nine","ten"} |->
     CASE w = "one" -> 1 [] w = "two" -> 2 [] w = "three" -> 3 [] w = "four" -> 4
       [] w = "five" -> 5 [] w = "six" -> 6 [] w = "seven" -> 7 [] w = "eight" -> 8
       [] w = "nine" -> 9 [] w = "ten" -> 10]

\* Mutant: the digits are not read.
extractWordCountFromUndo_AlwaysOne(sentence) == {1}

\* The counts extractWordCountFromUndo can return.  The written numbers are
\* tried in the iteration order of a Go map, which is not fixed: when several
\* match, any of them can be returned.
extractWordCountFromUndo(sentence) ==
  IF Contains(sentence, "undo word") /\ ~Contains(sentence, "undo last")
    THEN {1}
  ELSE
    LET d == UndoLastDigits(sentence)
        written == {wordNumbers[w] : w \in
                      {x \in DOMAIN wordNumbers :
                         Contains(sentence, "undo last " \o x \o " word")}}
    IN  IF d # "" /\ Len(d) <= 18 THEN {Atoi(d)}
        ELSE IF written # {} THEN written
        ELSE {1}

\* Mutant: a break marker counts as one word.
RECURSIVE undoWordsLoop_BreakCounts(_, _, _, _)
undoWordsLoop_BreakCounts(ph, wordsRemoved, charactersToBackspace, wordCount) ==
  IF ~(wordsRemoved < wordCount /\ Len(ph) > 0)
    THEN [phrases |-> ph, chars |-> charactersToBackspace]
  ELSE
    LET lastPhrase    == ph[Len(ph)]
        rest          == SubSeq(ph, 1, Len(ph) - 1)
        words         == Fields(TrimSpace(lastPhrase))
        wordsToRemove == wordCount - wordsRemoved
    IN  IF lastPhrase = "\n" \/ lastPhrase = "\n\n"
          THEN undoWordsLoop_BreakCounts(rest, wordsRemoved + 1,
                                         charactersToBackspace, wordCount)
        ELSE IF Len(words) <= wordsToRemove
          THEN undoWordsLoop_BreakCounts(rest, wordsRemoved + Len(words),
                                         charactersToBackspace + GoLen(lastPhrase),
                                         wordCount)
        ELSE
          LET newPhrase == (IF HasPrefix(lastPhrase, " ") THEN " " ELSE "")
                             \o Join(SubSeq(words, 1, Len(words) - wordsToRemove), " ")
          IN  [phrases |-> Append(rest, newPhrase),
               chars   |-> charactersToBackspace + GoLen(lastPhrase) - GoLen(newPhrase)]

\* The loop of handleUndoWordsCommand: the phrases left and the number of
\* characters to backspace.
RECURSIVE undoWordsLoop(_, _, _, _)
undoWordsLoop(ph, wordsRemoved, charactersToBackspace, wordCount) ==
  IF ~(wordsRemoved < wordCount /\ Len(ph) > 0)
    THEN [phrases |-> ph, chars |-> charactersToBackspace]
  ELSE
    LET lastPhrase    == ph[Len(ph)]
        rest          == SubSeq(ph, 1, Len(ph) - 1)
        words         == Fields(TrimSpace(lastPhrase))
        wordsToRemove == wordCount - wordsRemoved
    IN  IF isBreak(lastPhrase)
          THEN undoWordsLoop(rest, wordsRemoved, charactersToBackspace, wordCount)
        ELSE IF Len(words) <= wordsToRemove
          THEN undoWordsLoop(rest, wordsRemoved + Len(words),
                             charactersToBackspace + GoLen(lastPhrase), wordCount)
        ELSE
          LET remainingWords == SubSeq(words, 1, Len(words) - wordsToRemove)
              joined         == Join(remainingWords, " ")
              newPhrase      == IF HasPrefix(lastPhrase, " ") /\ ~HasPrefix(joined, " ")
                                  THEN " " \o joined ELSE joined
          IN  IF Len(remainingWords) > 0
                THEN undoWordsLoop(Append(rest, newPhrase), wordCount,
                                   charactersToBackspace
                                     + GoLen(lastPhrase) - GoLen(newPhrase),
                                   wordCount)
                ELSE undoWordsLoop(rest, wordCount,
                                   charactersToBackspace + GoLen(lastPhrase),
                                   wordCount)

handleUndoWordsCommand(st, wordCount, rt) ==
  IF Len(st.phrases) = 0 THEN st
  ELSE
    LET r == undoWordsLoop(st.phrases, 0, 0, wordCount)
    IN  [st EXCEPT !.phrases = r.phrases,
                   !.concatenated = rebuildConcatenated(r.phrases),
                   !.e = IF rt THEN Called(TypeBackspaces(st.e, r.chars)) ELSE @]

\* Mutant: the line-break phrases are tested before the undo phrases.
processVoiceCommands_BreaksFirst(st, sentence, rt) ==
  LET sentenceLower == ToLower(TrimSpace(sentence))
      out(s2, k, c, res) == [st |-> s2, kind |-> k, count |-> c, result |-> res]
  IN  IF \E k \in {"newline", "new line"} : Contains(sentenceLower, k)
        THEN {out(st, "lineBreak", 0, <<"\n">>)}
      ELSE IF Contains(sentenceLower, "undo that")
        THEN {out(handleUndoCommand(st, rt), "undoThat", 0, <<>>)}
      ELSE IF isUndoWordsCommand(sentenceLower)
        THEN {out(handleUndoWordsCommand(st, c, rt), "undoWords", c, <<>>)
              : c \in extractWordCountFromUndo(sentenceLower)}
      ELSE IF \E k \in {"next para", "new para", "next paragraph", "new paragraph"} :
                Contains(sentenceLower, k)
        THEN {out(st, "paragraphBreak", 0, <<"\n\n">>)}
      ELSE {out(st, "text", 0, <<sentence>>)}

\* processVoiceCommands: the outcomes [st, kind, count, result], where result
\* is <<>> for a nil return and <<s>> for a pointer to s.
processVoiceCommands(st, sentence, rt) ==
  LET sentenceLower == ToLower(TrimSpace(sentence))
      out(s2, k, c, res) == [st |-> s2, kind |-> k, count |-> c, result |-> res]
  IN  IF containsKeywords(sentenceLower, {"undo that"})
        THEN {out(handleUndoCommand(st, rt), "undoThat", 0, <<>>)}
      ELSE IF isUndoWordsCommand(sentenceLower)
        THEN {out(handleUndoWordsCommand(st, c, rt), "undoWords", c, <<>>)
              : c \in extractWordCountFromUndo(sentenceLower)}
      ELSE IF containsKeywords(sentenceLower, {"newline", "new line"})
        THEN {out(st, "lineBreak", 0, <<"\n">>)}
      ELSE IF containsKeywords(sentenceLower,
                {"next para", "new para", "next paragraph", "new paragraph"})
        THEN {out(st, "paragraphBreak", 0, <<"\n\n">>)}
      ELSE IF containsKeywords(sentenceLower,
                {"end voice", "end recording", "stop recording", "stop voice"})
        THEN {out(st, "stopIgnored", 0, <<>>)}
      ELSE {out(st, "text", 0, <<sentence>>)}

\* The part of AddPhrase after processVoiceCommands returned processedPhrase.
\* A mutant of addProcessed: the text is typed first, and the buffer is left
\* as it was when the injector reports an error.
addProcessed_TypeFirst(st, processedPhrase, rt) ==
  IF processedPhrase = "\n" \/ processedPhrase = "\n\n"
    THEN [st EXCEPT !.phrases = Append(@, processedPhrase),
                    !.e = IF ~rt THEN @
                          ELSE IF processedPhrase = "\n"
                            THEN Called(TypeNewline(@))
                            ELSE Called(TypeParagraphBreak(@))]
    ELSE
      LET textWithSpacing ==
            IF Len(st.phrases) > 0 /\ ~lastWasLineBreak(st.phrases)
              THEN " " \o processedPhrase ELSE processedPhrase
          typed == IF rt THEN Called(TypeText(st.e, textWithSpacing)) ELSE st.e
      IN  IF typed.ok
            THEN [st EXCEPT !.phrases = Append(@, textWithSpacing),
                            !.concatenated = @ \o textWithSpacing,
                            !.lastSentence = processedPhrase,
                            !.e = typed]
            ELSE [st EXCEPT !.e = typed]

addProcessed(st, processedPhrase, rt) ==
  IF processedPhrase = "\n" \/ processedPhrase = "\n\n"
    THEN [st EXCEPT !.phrases = Append(@, processedPhrase),
                    !.e = IF ~rt THEN @
                          ELSE IF processedPhrase = "\n"
                            THEN Called(TypeNewline(@))
                            ELSE Called(TypeParagraphBreak(@))]
    ELSE
      LET textWithSpacing ==
            IF Len(st.phrases) > 0 /\ ~lastWasLineBreak(st.phrases)
              THEN " " \o processedPhrase ELSE processedPhrase
      IN  [st EXCEPT !.phrases = Append(@, textWithSpacing),
                     !.concatenated = @ \o textWithSpacing,
                     !.lastSentence = processedPhrase,
                     !.e = IF rt THEN Called(TypeText(@, textWithSpacing)) ELSE @]

\* AddPhrase: the outcomes [st, kind, count].
AddPhrase(st, phrase, rt) ==
  {[st    |-> IF p.result = <<>> THEN p.st ELSE addProcessed(p.st, p.result[1], rt),
    kind  |-> p.kind,
    count |-> p.count] : p \in processVoiceCommands(st, phrase, rt)}

Clear(st) == [st EXCEPT !.phrases = <<>>, !.concatenated = "", !.lastSentence = ""]

(***************************************************************************)
(* DeepgramService.                                                        *)
(***************************************************************************)
\* Mutant: the transcript must be a stop phrase, not merely contain one.
isStopCommand_ExactMatch(transcript) ==
  ToLower(TrimSpace(transcript)) \in
    {"end voice", "end recording", "stop recording", "stop voice"}

isStopCommand(transcript) ==
  LET transcriptLower == ToLower(TrimSpace(transcript))
  IN  \E keyword \in {"end voice", "end recording", "stop recording", "stop voice"} :
        Contains(transcriptLower, keyword)

(***************************************************************************)
(* The dictation machine: transcript events arrive at the callback of one  *)
(* session, whose stack was cleared when the session started.              *)
(***************************************************************************)
\* The transcripts the service delivers (alternative 0 of an event).
Transcripts ==
  { "hello world", "this is a test",
    "newline", "next paragraph", "new line next para",
    "undo that", "Undo that new line",
    "undo word", "undo last 2 words", "undo last 0 words",
    "undo last two words newline",
    "okay let's end voice now", "undo that and Stop Recording",
    " hello world ", "" }

\* Transcripts of events that are not final.
PartialTranscripts == {"stop voice and undo that"}

\* The end-to-end scenario of the specification.
Scenario == <<"hello world", "newline", "this is a test", "undo last 2 words">>

\* The sessions: whether text is typed as it arrives, and the installation
\* the injector is constructed in.
SessionConfigs ==
  { [realTimeTyping |-> TRUE, displayServer |-> "x11",
     availableTools |-> {"xdotool", "xclip"},
     typeWorks |-> {"xdotool"}, keyWorks |-> {"xdotool"}, clipboard |-> "orig"],
    [realTimeTyping |-> TRUE, displayServer |-> "unknown",
     availableTools |-> {},
     typeWorks |-> {}, keyWorks |-> {}, clipboard |-> ""],
    [realTimeTyping |-> FALSE, displayServer |-> "wayland",
     availableTools |-> {"wtype", "wl-copy"},
     typeWorks |-> {"wtype"}, keyWorks |-> {"wtype"}, clipboard |-> ""] }

CurStack ==
  [phrases |-> phrases, concatenated |-> concatenated, lastSentence |-> lastSentence,
   e |-> [screen |-> screen, clipboard |-> clipboard, silentMode |-> silentMode,
          ok |-> TRUE, allOk |-> injOK, log |-> <<>>]]

SetStack(st) ==
  /\ phrases' = st.phrases
  /\ concatenated' = st.concatenated
  /\ lastSentence' = st.lastSentence
  /\ screen' = st.e.screen
  /\ clipboard' = st.e.clipboard
  /\ silentMode' = st.e.silentMode
  /\ injOK' = st.e.allOk

\* The buffer, the stop flag and the screen as an event finds them.
Before ==
  [phrases |-> phrases, concatenated |-> concatenated,
   stopRequested |-> stopRequested, screen |-> screen]

DictationInit(configs) ==
  /\ phrases = <<>>
  /\ concatenated = ""
  /\ lastSentence = ""
  /\ stopRequested = FALSE
  /\ \E c \in configs :
       /\ realTimeTyping = c.realTimeTyping
       /\ displayServer = c.displayServer
       /\ availableTools = c.availableTools
       /\ typeWorks = c.typeWorks
       /\ keyWorks = c.keyWorks
       /\ clipboard = c.clipboard
  /\ silentMode = FALSE
  /\ screen = ""
  /\ events = 0
  /\ injOK = TRUE
  /\ last = [kind |-> "init", transcript |-> "", final |-> FALSE, count |-> 0, keys |-> 0]
  /\ snap = Before
  /\ scen = IF realTimeTyping THEN 0 ELSE -1

\* A mutant of Accepts: events that are not final are handled as well.
Accepts_AnyEvent(transcript, isFinal) == transcript # ""

\* DeepgramCallback.Message: the condition under which a transcript is handled.
Accepts(transcript, isFinal) == transcript # "" /\ isFinal

\* DeepgramCallback.Message for an event with the given alternatives.
Message(alternatives, isFinal) ==
  LET transcript == IF Len(alternatives) > 0 THEN TrimSpace(alternatives[1]) ELSE ""
  IN  IF Len(alternatives) > 0 /\ Accepts(transcript, isFinal)
        THEN IF isStopCommand(transcript)
               THEN /\ events < MaxEvents
                    /\ events' = events + 1
                    /\ stopRequested' = TRUE
                    /\ last' = [kind |-> "stop", transcript |-> transcript,
                                final |-> isFinal, count |-> 0, keys |-> 0]
                    /\ scen' = -1
                    /\ snap' = Before
                    /\ UNCHANGED <<stackVars, realTimeTyping, injectorVars, envVars, injOK>>
               ELSE \E r \in AddPhrase(CurStack, transcript, realTimeTyping) :
                      /\ events < MaxEvents
                      /\ events' = events + 1
                      /\ SetStack(r.st)
                      /\ last' = [kind |-> r.kind, transcript |-> transcript,
                                  final |-> isFinal, count |-> r.count,
                                  keys |-> KeyRuns(r.st.e.log)]
                      /\ snap' = Before
                      /\ scen' = IF /\ scen \in 0..(Len(Scenario) - 1)
                                    /\ transcript = Scenario[scen + 1]
                                    /\ r.st.e.allOk
                                   THEN scen + 1 ELSE -1
                      /\ UNCHANGED <<serviceVars, displayServer, availableTools,
                                     typeWorks, keyWorks>>
        ELSE /\ last' = [kind |-> "ignored", transcript |-> transcript,
                         final |-> isFinal, count |-> 0, keys |-> 0]
             /\ snap' = Before
             /\ UNCHANGED <<stackVars, serviceVars, injectorVars, envVars,
                            events, injOK, scen>>

\* SpeechService.StartRecording clears the stack when a session starts; the
\* observer's screen starts over with the focused field of the new session.
StartSession ==
  /\ SetStack([Clear(CurStack) EXCEPT !.e.screen = "", !.e.allOk = TRUE])
  /\ stopRequested' = FALSE
  /\ events' = 0
  /\ last' = [kind |-> "clear", transcript |-> "", final |-> FALSE, count |-> 0, keys |-> 0]
  /\ snap' = Before
  /\ scen' = IF realTimeTyping THEN 0 ELSE -1
  /\ UNCHANGED <<realTimeTyping, displayServer, availableTools, typeWorks, keyWorks>>

FinalEvent ==
  /\ \E t \in Transcripts : Message(<<t>>, TRUE)
  /\ UNCHANGED <<procVars, injectorCallVars, sessionVars>>

PartialEvent ==
  /\ \E t \in PartialTranscripts : Message(<<t>>, FALSE)
  /\ UNCHANGED <<procVars, injectorCallVars, sessionVars>>

EventNoAlternative ==
  /\ Message(<<>>, TRUE)
  /\ UNCHANGED <<procVars, injectorCallVars, sessionVars>>

NewSession ==
  /\ StartSession
  /\ UNCHANGED <<procVars, injectorCallVars, sessionVars>>

(***************************************************************************)
(* The injector on its own: TypeText called on injectors constructed in    *)
(* every installation of InjectorConfigs.                                  *)
(***************************************************************************)
\* The installations: the display server, the tools detectAvailableTools
\* finds, the tools whose commands succeed when run, and the clipboard.
InjectorConfigs ==
  { [displayServer |-> d, availableTools |-> a, typeWorks |-> t, keyWorks |-> k,
     clipboard |-> c] :
      d \in {"x11", "wayland"},
      a \in SUBSET {"xdotool", "wtype", "xclip"},
      t \in SUBSET {"xdotool", "wtype"},
      k \in SUBSET {"xdotool", "wtype"},
      c \in {"", "orig"} }

\* The texts TypeText is called with.
InjectorTexts == {"", "hi", "yo"}

NoCall == [text |-> "", silentBefore |-> FALSE, clipBefore |-> "", log |-> <<>>,
           ok |-> TRUE]

InjectorInit ==
  /\ \E c \in InjectorConfigs :
       /\ c.typeWorks \subseteq c.availableTools
       /\ c.keyWorks \subseteq c.availableTools
       /\ displayServer = c.displayServer
       /\ availableTools = c.availableTools
       /\ typeWorks = c.typeWorks
       /\ keyWorks = c.keyWorks
       /\ clipboard = c.clipboard
  /\ silentMode = FALSE
  /\ screen = ""
  /\ calls = 0
  /\ ilast = NoCall

\* A call of TextInjector.TypeText.
TypeTextCall ==
  /\ calls < MaxCalls
  /\ \E text \in InjectorTexts :
       LET e == [screen |-> screen, clipboard |-> clipboard, silentMode |-> silentMode,
                 ok |-> TRUE, allOk |-> TRUE, log |-> <<>>]
           r == TypeText(e, text)
       IN  /\ screen' = r.screen
           /\ clipboard' = r.clipboard
           /\ silentMode' = r.silentMode
           /\ ilast' = [text |-> text, silentBefore |-> silentMode,
                        clipBefore |-> clipboard, log |-> r.log, ok |-> r.ok]
  /\ calls' = calls + 1
  /\ UNCHANGED <<stackVars, serviceVars, displayServer, availableTools, typeWorks, keyWorks,
                 historyVars, procVars, sessionVars>>

(***************************************************************************)
(* main: the processes started by the hotkey, the lock file and signals.   *)
(* A process is named by its PID.                                          *)
(***************************************************************************)
Procs == 1..NumProcs

Alive(p) == pc[p] \notin {"notStarted", "exited", "killed"}

\* syscall.Kill(target, sig) by a running process.  A process that has not
\* called signal.Notify dies of the signal; otherwise the signal goes to
\* sigChan unless the channel is full.  The result is <<pc, sigChan>>.
Signalled(targets, sig) ==
  <<[q \in Procs |-> IF q \in targets /\ Alive(q) /\ ~handled[q]
                       THEN "killed" ELSE pc[q]],
    [q \in Procs |-> IF q \in targets /\ Alive(q) /\ handled[q] /\ sigChan[q] = <<>>
                       THEN <<sig>> ELSE sigChan[q]]>>

ProcInit ==
  /\ pc = [p \in Procs |-> "notStarted"]
  /\ lock = <<>>
  /\ handled = [p \in Procs |-> FALSE]
  /\ sigChan = [p \in Procs |-> <<>>]
  /\ handlerDone = [p \in Procs |-> FALSE]
  /\ cancelled = [p \in Procs |-> FALSE]
  /\ found = [p \in Procs |-> {}]
  /\ lockPid = [p \in Procs |-> 0]
  /\ recording = [p \in Procs |-> FALSE]
  /\ initializing = [p \in Procs |-> FALSE]
  /\ duringRec = [p \in Procs |-> FALSE]
  /\ stopCause = [p \in Procs |-> "none"]

\* The hotkey is pressed: a process starts with --hotkey.
Launch(p) ==
  /\ pc[p] = "notStarted"
  /\ pc' = [pc EXCEPT ![p] = "pgrep"]
  /\ duringRec' = [duringRec EXCEPT ![p] =
                     \E q \in Procs : Alive(q) /\ recording[q] /\ ~initializing[q]]
  /\ UNCHANGED <<restVars, lock, handled, sigChan, handlerDone, cancelled, found, lockPid,
                 recording, initializing, stopCause>>

\* killExistingInstances: pgrep -f voice-typing.
KillPgrep(p) ==
  /\ pc[p] = "pgrep"
  /\ found' = [found EXCEPT ![p] = {q \in Procs : Alive(q)}]
  /\ pc' = [pc EXCEPT ![p] = "killFound"]
  /\ UNCHANGED <<restVars, lock, handled, sigChan, handlerDone, cancelled, lockPid,
                 recording, initializing, duringRec, stopCause>>

\* killExistingInstances: SIGTERM to every PID found but its own, then the
\* sleep; main goes on to handleHotkeyToggle.
KillFound(p) ==
  /\ pc[p] = "killFound"
  /\ LET r == Signalled(found[p] \ {p}, "SIGTERM")
     IN  /\ pc' = [r[1] EXCEPT ![p] = "stat"]
         /\ sigChan' = r[2]
  /\ UNCHANGED <<restVars, lock, handled, handlerDone, cancelled, found, lockPid,
                 recording, initializing, duringRec, stopCause>>

\* handleHotkeyToggle: os.Stat(LOCK_FILE).
ToggleStat(p) ==
  /\ pc[p] = "stat"
  /\ pc' = [pc EXCEPT ![p] = IF lock # <<>> THEN "stopRead" ELSE "writeLock"]
  /\ UNCHANGED <<restVars, lock, handled, sigChan, handlerDone, cancelled, found, lockPid,
                 recording, initializing, duringRec, stopCause>>

\* A mutant of StopRead: a lock file without a PID is left in place.
StopRead_KeepsInvalid(p) ==
  /\ pc[p] = "stopRead"
  /\ IF lock # <<>> /\ lock[1] \in Procs
       THEN /\ lockPid' = [lockPid EXCEPT ![p] = lock[1]]
            /\ pc' = [pc EXCEPT ![p] = "stopKill"]
       ELSE /\ pc' = [pc EXCEPT ![p] = "exited"]
            /\ lockPid' = lockPid
  /\ UNCHANGED <<restVars, lock, handled, sigChan, handlerDone, cancelled, found,
                 recording, initializing, duringRec, stopCause>>

\* stopExistingRecording: read the lock file and parse the PID; on an error
\* remove the lock file and return.
StopRead(p) ==
  /\ pc[p] = "stopRead"
  /\ IF lock # <<>> /\ lock[1] \in Procs
       THEN /\ lockPid' = [lockPid EXCEPT ![p] = lock[1]]
            /\ pc' = [pc EXCEPT ![p] = "stopKill"]
            /\ lock' = lock
       ELSE /\ lock' = <<>>
            /\ pc' = [pc EXCEPT ![p] = "exited"]
            /\ lockPid' = lockPid
  /\ UNCHANGED <<restVars, handled, sigChan, handlerDone, cancelled, found,
                 recording, initializing, duringRec, stopCause>>

\* stopExistingRecording: SIGTERM to the PID read.
StopKill(p) ==
  /\ pc[p] = "stopKill"
  /\ LET r == Signalled({lockPid[p]}, "SIGTERM")
     IN  /\ pc' = [r[1] EXCEPT ![p] = "stopRemove"]
         /\ sigChan' = r[2]
  /\ UNCHANGED <<restVars, lock, handled, handlerDone, cancelled, found, lockPid,
                 recording, initializing, duringRec, stopCause>>

\* stopExistingRecording: after the sleep, os.Remove(LOCK_FILE); main returns.
StopRemove(p) ==
  /\ pc[p] = "stopRemove"
  /\ lock' = <<>>
  /\ pc' = [pc EXCEPT ![p] = "exited"]
  /\ UNCHANGED <<restVars, handled, sigChan, handlerDone, cancelled, found, lockPid,
                 recording, initializing, duringRec, stopCause>>

\* startHotkeyRecording: write the own PID to the lock file.
WriteLock(p) ==
  /\ pc[p] = "writeLock"
  /\ lock' = <<p>>
  /\ pc' = [pc EXCEPT ![p] = "notify"]
  /\ UNCHANGED <<restVars, handled, sigChan, handlerDone, cancelled, found, lockPid,
                 recording, initializing, duringRec, stopCause>>

\* startHotkeyRecording shows its notification; runSingleSession creates the
\* service and the context and calls signal.Notify.
SignalNotify(p) ==
  /\ pc[p] = "notify"
  /\ handled' = [handled EXCEPT ![p] = TRUE]
  /\ pc' = [pc EXCEPT ![p] = "startRecording"]
  /\ UNCHANGED <<restVars, lock, sigChan, handlerDone, cancelled, found, lockPid,
                 recording, initializing, duringRec, stopCause>>

\* The goroutine of runSingleSession: sig := <-sigChan; cancel().
SignalGoroutine(p) ==
  /\ Alive(p)
  /\ handled[p]
  /\ ~handlerDone[p]
  /\ sigChan[p] # <<>>
  /\ sigChan' = [sigChan EXCEPT ![p] = <<>>]
  /\ handlerDone' = [handlerDone EXCEPT ![p] = TRUE]
  /\ cancelled' = [cancelled EXCEPT ![p] = TRUE]
  /\ UNCHANGED <<restVars, pc, lock, handled, found, lockPid, recording, initializing,
                 duringRec, stopCause>>

\* StartRecording: the flags are set.
StartRecording(p) ==
  /\ pc[p] = "startRecording"
  /\ initializing' = [initializing EXCEPT ![p] = TRUE]
  /\ recording' = [recording EXCEPT ![p] = TRUE]
  /\ pc' = [pc EXCEPT ![p] = "audioInit"]
  /\ UNCHANGED <<restVars, lock, handled, sigChan, handlerDone, cancelled, found, lockPid,
                 duringRec, stopCause>>

\* StartRecording: the audio stream is created and started, the stack is
\* cleared; on an error the deferred function resets the flags.
AudioInit(p) ==
  /\ pc[p] = "audioInit"
  /\ \E ok \in BOOLEAN :
       IF ok
         THEN /\ initializing' = [initializing EXCEPT ![p] = FALSE]
              /\ recording' = recording
              /\ pc' = [pc EXCEPT ![p] = "monitor"]
         ELSE /\ initializing' = [initializing EXCEPT ![p] = FALSE]
              /\ recording' = [recording EXCEPT ![p] = FALSE]
              /\ pc' = [pc EXCEPT ![p] = "removeLock"]
  /\ UNCHANGED <<restVars, lock, handled, sigChan, handlerDone, cancelled, found, lockPid,
                 duringRec, stopCause>>

\* StartRecording: the monitoring loop returns, on the cancelled context, on
\* the end of streaming or on the stop flag; the deferred function resets
\* the flags.
MonitorReturns(p) ==
  /\ pc[p] = "monitor"
  /\ \E reason \in {"ctxDone", "streamErr", "stopRequested"} :
       /\ reason = "ctxDone" => cancelled[p]
       /\ stopCause' = [stopCause EXCEPT ![p] = reason]
  /\ initializing' = [initializing EXCEPT ![p] = FALSE]
  /\ recording' = [recording EXCEPT ![p] = FALSE]
  /\ pc' = [pc EXCEPT ![p] = "removeLock"]
  /\ UNCHANGED <<restVars, lock, handled, sigChan, handlerDone, cancelled, found, lockPid,
                 duringRec>>

\* startHotkeyRecording: the deferred os.Remove(LOCK_FILE); main returns.
RemoveLock(p) ==
  /\ pc[p] = "removeLock"
  /\ lock' = <<>>
  /\ pc' = [pc EXCEPT ![p] = "exited"]
  /\ UNCHANGED <<restVars, handled, sigChan, handlerDone, cancelled, found, lockPid,
                 recording, initializing, duringRec, stopCause>>

\* main with --stopkey: no killExistingInstances, handleGracefulStop at once.
LaunchStopKey(p) ==
  /\ pc[p] = "notStarted"
  /\ pc' = [pc EXCEPT ![p] = "gracefulRead"]
  /\ UNCHANGED <<restVars, lock, handled, sigChan, handlerDone, cancelled, found, lockPid,
                 recording, initializing, duringRec, stopCause>>

\* handleGracefulStop: read the lock file and parse the PID.  Without a lock
\* file it returns; a lock file that holds no PID is removed.
GracefulStopRead(p) ==
  /\ pc[p] = "gracefulRead"
  /\ IF lock = <<>>
       THEN /\ pc' = [pc EXCEPT ![p] = "exited"]
            /\ UNCHANGED <<lock, lockPid>>
       ELSE IF lock[1] \in Procs
         THEN /\ lockPid' = [lockPid EXCEPT ![p] = lock[1]]
              /\ pc' = [pc EXCEPT ![p] = "gracefulKill"]
              /\ lock' = lock
         ELSE /\ lock' = <<>>
              /\ pc' = [pc EXCEPT ![p] = "exited"]
              /\ lockPid' = lockPid
  /\ UNCHANGED <<restVars, handled, sigChan, handlerDone, cancelled, found,
                 recording, initializing, duringRec, stopCause>>

\* A mutant of GracefulStopKill: SIGUSR1 goes to every running instance.
GracefulStopKill_Everyone(p) ==
  /\ pc[p] = "gracefulKill"
  /\ LET r == Signalled({q \in Procs : Alive(q)} \ {p}, "SIGUSR1")
     IN  /\ pc' = [r[1] EXCEPT ![p] = "exited"]
         /\ sigChan' = r[2]
  /\ UNCHANGED <<restVars, lock, handled, handlerDone, cancelled, found, lockPid,
                 recording, initializing, duringRec, stopCause>>

\* handleGracefulStop: SIGUSR1 to the PID read; main returns.
GracefulStopKill(p) ==
  /\ pc[p] = "gracefulKill"
  /\ LET r == Signalled({lockPid[p]}, "SIGUSR1")
     IN  /\ pc' = [r[1] EXCEPT ![p] = "exited"]
         /\ sigChan' = r[2]
  /\ UNCHANGED <<restVars, lock, handled, handlerDone, cancelled, found, lockPid,
                 recording, initializing, duringRec, stopCause>>

\* A step of a process started with --stopkey.
StopKeyStep(p) == LaunchStopKey(p) \/ GracefulStopRead(p) \/ GracefulStopKill(p)

ProcStep(p) ==
  \/ Launch(p) \/ KillPgrep(p) \/ KillFound(p) \/ ToggleStat(p)
  \/ StopRead(p) \/ StopKill(p) \/ StopRemove(p)
  \/ WriteLock(p) \/ SignalNotify(p) \/ SignalGoroutine(p)
  \/ StartRecording(p) \/ AudioInit(p) \/ MonitorReturns(p) \/ RemoveLock(p)

(***************************************************************************)
(* One session in detail: the process Self runs startHotkeyRecording (or,  *)
(* without a flag, runSingleSession), StartRecording with its deferred     *)
(* calls, and the StartStreaming goroutine; the service opens the          *)
(* connection and sends transcripts, the sound card delivers frames, and   *)
(* signals arrive from outside.  The toggle model above abstracts          *)
(* StartRecording into AudioInit and MonitorReturns.                       *)
(***************************************************************************)
Self == 1

\* The capacity of AudioStream.dataChan.
DataChanCap == 100

\* The transcripts the service delivers in a session.
SessionTranscripts == {"hello world", "stop voice"}

\* No call of audioCallback is in progress; last is what the last call did
\* with its frame, late whether a frame was enqueued after a.ctx was cancelled.
CallbackIdle(did, late) == [at |-> "idle", last |-> did, late |-> late]

\* StartStreaming has not returned.
NotReturned == [cause |-> "none", err |-> "none", stopped |-> FALSE, writes |-> 0]

\* The channel count of a session whose device offers what the configuration asks.
NoChannels ==
  [devices |-> <<>>, default |-> [name |-> "HDA Intel", max |-> 1], requested |-> 1,
   config |-> 1, opened |-> 0, options |-> 0, at |-> "created"]

\* No call on the TranscriptionStack has begun.
NoAccess == [clear |-> "todo", message |-> "idle"]

\* No frame has been captured.
NoFlow == [queue |-> <<>>, written |-> <<>>, lost |-> {}]

\* A mutant of FlowRead: a frame whose send failed stays at the head of the
\* channel, to be sent again.
FlowRead_Retries(fate) ==
  [queue |-> IF fate = "failed" THEN flow.queue ELSE Tail(flow.queue),
   written |-> IF fate = "sent" THEN Append(flow.written, Head(flow.queue))
               ELSE flow.written,
   lost |-> IF fate \in {"failed", "discarded"} THEN flow.lost \cup {Head(flow.queue)}
            ELSE flow.lost]

\* The frame at the head of dataChan is received: it is sent by WriteBinary,
\* or WriteBinary fails, or the loop returns on the stop flag with the frame in
\* hand, or (in the model of the AudioStream alone) a reader takes it.
FlowRead(fate) ==
  [queue |-> Tail(flow.queue),
   written |-> IF fate = "sent" THEN Append(flow.written, Head(flow.queue))
               ELSE flow.written,
   lost |-> IF fate \in {"failed", "discarded"} THEN flow.lost \cup {Head(flow.queue)}
            ELSE flow.lost]

\* audioCallback with frame number id: the send, or the drop at a full channel.
FlowSend(id) == [flow EXCEPT !.queue = Append(@, id)]

FlowDrop(id) == [flow EXCEPT !.lost = @ \cup {id}]

SessionRestButChannels(modes) ==
  /\ mode \in modes
  /\ callback = CallbackIdle("none", FALSE)
  /\ stopFailed = FALSE
  /\ wsClient = "nil"
  /\ connected = FALSE
  /\ stream = "off"
  /\ waitI = 0
  /\ dataChan = 0
  /\ dataClosed = FALSE
  /\ frames = 0
  /\ sentFrames = 0
  /\ streamCancelled = FALSE
  /\ streamErr = "empty"
  /\ retErr = "none"
  /\ reported = FALSE
  /\ closed = FALSE
  /\ signals = 0
  /\ pump = NotReturned
  /\ writeLog = <<>>
  /\ flow = NoFlow
  /\ access = NoAccess

SessionRestButAudio(modes) == channels = NoChannels /\ SessionRestButChannels(modes)

\* StartStreaming returns err for a cause, after the given number of writes.
Returned(cause, err, stopped) ==
  [cause |-> cause, err |-> err, stopped |-> stopped, writes |-> Len(writeLog)]

SessionRest(modes) == audio = "none" /\ SessionRestButAudio(modes)

At(l) == pc[Self] = l

Goto(l) == pc' = [pc EXCEPT ![Self] = l]

\* main: killExistingInstances finds no other process; with --hotkey
\* handleHotkeyToggle follows, without a flag runSingleSession.
LaunchSession ==
  /\ At("notStarted")
  /\ Goto(IF mode = "hotkey" THEN "stat" ELSE "notify")
  /\ UNCHANGED <<restVars, lock, handled, sigChan, handlerDone, cancelled, found, lockPid,
                 recording, initializing, duringRec, stopCause>>

\* A signal from outside: Ctrl+C, kill, or the SIGUSR1 of handleGracefulStop.
ExternalSignal ==
  /\ Alive(Self)
  /\ signals < MaxSignals
  /\ signals' = signals + 1
  /\ \E sig \in {"SIGINT", "SIGTERM", "SIGUSR1"} :
       LET r == Signalled({Self}, sig)
       IN  pc' = r[1] /\ sigChan' = r[2]
  /\ UNCHANGED <<dictationVars, injectorCallVars, lock, handled, handlerDone, cancelled, found,
                 lockPid, recording, initializing, duringRec, stopCause,
                 mode, audio, stopFailed, wsClient, connected, stream, waitI, dataChan, flow,
                 dataClosed, frames, sentFrames, streamCancelled, streamErr, retErr,
                 reported, closed, pump, writeLog, callback, access, channels>>

\* What the steps of StartRecording below leave alone, besides the variables
\* each of them names.
mainFrame == <<dictationVars, injectorCallVars, lock, handled, sigChan, handlerDone, found,
               lockPid, duringRec, mode, connected, waitI, frames, sentFrames, signals,
               pump, writeLog, callback, access, channels>>

\* StartRecording: NewAudioStream; on success NewDeepgramService and
\* transcription.Clear follow, on an error StartRecording returns it.
NewAudioStream ==
  /\ At("audioInit")
  /\ \/ /\ audio' = "created"
        /\ Goto("audioStart")
        /\ retErr' = retErr
     \/ /\ audio' = audio
        /\ retErr' = "audioInit"
        /\ Goto("dFlags")
  /\ UNCHANGED <<mainFrame, cancelled, recording, initializing, stopCause, stopFailed, wsClient,
                 stream, dataChan, flow, dataClosed, streamCancelled, streamErr, reported, closed>>

\* A mutant of AudioStart: after a failed start StartRecording goes on to
\* the streaming.
AudioStart_ErrorGoesOn ==
  /\ At("audioStart")
  /\ \/ audio' = "started" /\ retErr' = retErr
     \/ audio' = audio /\ retErr' = "audioStart"
  /\ initializing' = [initializing EXCEPT ![Self] = FALSE]
  /\ stream' = "create"
  /\ Goto("monitoring")
  /\ UNCHANGED <<mainFrame, cancelled, recording, stopCause, stopFailed, wsClient,
                 dataChan, flow, dataClosed, streamCancelled, streamErr, reported, closed>>

\* StartRecording: audioStream.Start; on success initializing is reset and
\* the StartStreaming goroutine is started, on an error StartRecording
\* returns it and the deferred Close and Stop run.
AudioStart ==
  /\ At("audioStart")
  /\ \/ /\ audio' = "started"
        /\ initializing' = [initializing EXCEPT ![Self] = FALSE]
        /\ stream' = "create"
        /\ Goto("monitoring")
        /\ retErr' = retErr
     \/ /\ audio' = audio
        /\ initializing' = initializing
        /\ stream' = stream
        /\ retErr' = "audioStart"
        /\ Goto("dClose")
  /\ UNCHANGED <<mainFrame, cancelled, recording, stopCause, stopFailed, wsClient,
                 dataChan, flow, dataClosed, streamCancelled, streamErr, reported, closed>>

\* The monitoring loop of StartRecording: case <-ctx.Done().
MonitorCtxDone ==
  /\ At("monitoring")
  /\ cancelled[Self]
  /\ stopCause' = [stopCause EXCEPT ![Self] = "ctxDone"]
  /\ retErr' = "nil"
  /\ Goto("dStreamCancel")
  /\ UNCHANGED <<mainFrame, cancelled, recording, initializing, audio, stopFailed, wsClient,
                 stream, dataChan, flow, dataClosed, streamCancelled, streamErr, reported, closed>>

\* A mutant of MonitorStreamErr: the error of StartStreaming is dropped.
MonitorStreamErr_DropsError ==
  /\ At("monitoring")
  /\ streamErr # "empty"
  /\ streamErr' = "empty"
  /\ stopCause' = [stopCause EXCEPT ![Self] = "streamErr"]
  /\ retErr' = "nil"
  /\ Goto("dStreamCancel")
  /\ UNCHANGED <<mainFrame, cancelled, recording, initializing, audio, stopFailed, wsClient,
                 stream, dataChan, flow, dataClosed, streamCancelled, reported, closed>>

\* The monitoring loop of StartRecording: case err := <-streamErr.
MonitorStreamErr ==
  /\ At("monitoring")
  /\ streamErr # "empty"
  /\ streamErr' = "empty"
  /\ stopCause' = [stopCause EXCEPT ![Self] = "streamErr"]
  /\ retErr' = IF streamErr = "error" THEN "streaming" ELSE "nil"
  /\ Goto("dStreamCancel")
  /\ UNCHANGED <<mainFrame, cancelled, recording, initializing, audio, stopFailed, wsClient,
                 stream, dataChan, flow, dataClosed, streamCancelled, reported, closed>>

\* A mutant of MonitorTick: the ticker does not look at the stop flag.
MonitorTick_NoPoll ==
  /\ At("monitoring")
  /\ FALSE
  /\ UNCHANGED vars

\* The monitoring loop of StartRecording: case <-ticker.C, with the stop flag
\* set.  A tick that finds the flag down changes nothing.
MonitorTick ==
  /\ At("monitoring")
  /\ stopRequested
  /\ stopCause' = [stopCause EXCEPT ![Self] = "stopRequested"]
  /\ retErr' = "nil"
  /\ Goto("dStreamCancel")
  /\ UNCHANGED <<mainFrame, cancelled, recording, initializing, audio, stopFailed, wsClient,
                 stream, dataChan, flow, dataClosed, streamCancelled, streamErr, reported, closed>>

\* StartRecording returns: the deferred ticker.Stop and streamCancel.
DeferStreamCancel ==
  /\ At("dStreamCancel")
  /\ streamCancelled' = TRUE
  /\ Goto("dClose")
  /\ UNCHANGED <<mainFrame, cancelled, recording, initializing, stopCause, audio, stopFailed,
                 wsClient, stream, dataChan, flow, dataClosed, streamErr, retErr, reported, closed>>

\* StartRecording returns: the deferred s.deepgram.Close(), which stops the
\* client it finds in ds.wsClient.  The field is written by the StartStreaming
\* goroutine without synchronisation, so Close may still find nil.
DeepgramClose ==
  /\ At("dClose")
  /\ closed' = TRUE
  /\ \E seen \in (IF wsClient # "nil" THEN BOOLEAN ELSE {FALSE}) :
       wsClient' = IF seen THEN "stopped" ELSE wsClient
  /\ Goto("dAudioStop")
  /\ UNCHANGED <<mainFrame, cancelled, recording, initializing, stopCause, audio, stopFailed,
                 stream, dataChan, flow, dataClosed, streamCancelled, streamErr, retErr, reported>>

\* StartRecording returns: the deferred s.audioStream.Stop(), which logs the
\* errors of stream.Stop and stream.Close and goes on.
AudioStop ==
  /\ At("dAudioStop")
  /\ stopFailed' \in BOOLEAN
  /\ audio' = "stopped"
  /\ dataClosed' = TRUE
  /\ Goto("dFlags")
  /\ UNCHANGED <<mainFrame, cancelled, recording, initializing, stopCause, wsClient, stream,
                 dataChan, flow, streamCancelled, streamErr, retErr, reported, closed>>

\* StartRecording returns: the deferred reset of recording and initializing.
DeferFlags ==
  /\ At("dFlags")
  /\ recording' = [recording EXCEPT ![Self] = FALSE]
  /\ initializing' = [initializing EXCEPT ![Self] = FALSE]
  /\ Goto("returned")
  /\ UNCHANGED <<mainFrame, cancelled, stopCause, audio, stopFailed, wsClient, stream,
                 dataChan, flow, dataClosed, streamCancelled, streamErr, retErr, reported, closed>>

\* runSingleSession after StartRecording: an error is logged and notified,
\* the deferred cancel() runs; startHotkeyRecording's deferred os.Remove is
\* next, or main returns.
SessionReturns ==
  /\ At("returned")
  /\ reported' = (retErr \notin {"none", "nil"})
  /\ cancelled' = [cancelled EXCEPT ![Self] = TRUE]
  /\ Goto(IF mode = "hotkey" THEN "removeLock" ELSE "exited")
  /\ UNCHANGED <<mainFrame, recording, initializing, stopCause, audio, stopFailed, wsClient,
                 stream, dataChan, flow, dataClosed, streamCancelled, streamErr, retErr, closed>>

\* What the steps of the goroutines and of the environment leave alone.
sideFrame == <<injectorCallVars, procVars, mode, audio, stopFailed, streamCancelled, retErr,
               reported, closed, signals, callback, access, channels>>

\* StartStreaming: NewWSUsingCallback and Connect.
NewWS ==
  /\ Alive(Self)
  /\ stream = "create"
  /\ \/ /\ wsClient' = "created"
        /\ stream' = "wait"
        /\ UNCHANGED <<streamErr, pump>>
     \/ /\ wsClient' = wsClient
        /\ stream' = "done"
        /\ streamErr' = "error"
        /\ pump' = Returned("createErr", "error", FALSE)
  /\ UNCHANGED <<dictationVars, sideFrame, connected, waitI, dataChan, flow, dataClosed, frames,
                 sentFrames, writeLog>>

\* DeepgramCallback.Open.
Open ==
  /\ Alive(Self)
  /\ wsClient = "created"
  /\ ~connected
  /\ connected' = TRUE
  /\ UNCHANGED <<dictationVars, sideFrame, wsClient, stream, waitI, dataChan, flow, dataClosed,
                 frames, sentFrames, streamErr, pump, writeLog>>

\* A mutant of WaitConnected: after the last check the streaming starts.
WaitConnected_NoTimeout ==
  /\ Alive(Self)
  /\ stream = "wait"
  /\ \E seen \in (IF connected THEN BOOLEAN ELSE {FALSE}) :
       IF seen \/ waitI = MaxWait - 1
         THEN stream' = "streaming" /\ waitI' = waitI
         ELSE stream' = stream /\ waitI' = waitI + 1
  /\ UNCHANGED <<dictationVars, sideFrame, wsClient, connected, dataChan, flow, dataClosed, frames,
                 sentFrames, streamErr, pump, writeLog>>

\* StartStreaming: one turn of the loop that waits for ds.connected.  The
\* flag is written by the callback's goroutine without synchronisation, so
\* a check may still miss a flag that is set.
WaitConnected ==
  /\ Alive(Self)
  /\ stream = "wait"
  /\ \E seen \in (IF connected THEN BOOLEAN ELSE {FALSE}) :
       IF seen
         THEN /\ stream' = "streaming"
              /\ UNCHANGED <<waitI, streamErr, pump>>
         ELSE IF waitI = MaxWait - 1
           THEN /\ stream' = "done"
                /\ streamErr' = "error"
                /\ pump' = Returned("timeout", "error", FALSE)
                /\ waitI' = waitI
           ELSE /\ waitI' = waitI + 1
                /\ UNCHANGED <<stream, streamErr, pump>>
  /\ UNCHANGED <<dictationVars, sideFrame, wsClient, connected, dataChan, flow, dataClosed, frames,
                 sentFrames, writeLog>>

\* A mutant of StreamSelect: on the stop flag the loop returns without
\* stopping the client.
StreamSelect_FlagKeepsClient ==
  /\ Alive(Self)
  /\ stream = "streaming"
  /\ \/ /\ cancelled[Self] \/ streamCancelled          \* case <-ctx.Done()
        /\ wsClient' = "stopped"
        /\ stream' = "done"
        /\ streamErr' = "nil"
        /\ pump' = Returned("ctxDone", "nil", TRUE)
        /\ UNCHANGED <<dataChan, flow, sentFrames, writeLog>>
     \/ /\ dataChan = 0 /\ dataClosed                  \* case audioData, !ok
        /\ wsClient' = "stopped"
        /\ stream' = "done"
        /\ streamErr' = "nil"
        /\ pump' = Returned("closed", "nil", TRUE)
        /\ UNCHANGED <<dataChan, flow, sentFrames, writeLog>>
     \/ /\ dataChan > 0                                \* case audioData, ok
        /\ dataChan' = dataChan - 1
        /\ \E seen \in (IF stopRequested THEN BOOLEAN ELSE {FALSE}) :
             IF seen
               THEN /\ stream' = "done"
                    /\ streamErr' = "nil"
                    /\ pump' = Returned("stopFlag", "nil", FALSE)
                    /\ flow' = FlowRead("discarded")
                    /\ UNCHANGED <<wsClient, sentFrames, writeLog>>
               ELSE \/ /\ writeLog' = Append(writeLog, "ok")
                       /\ flow' = FlowRead("sent")
                       /\ sentFrames' = sentFrames + 1
                       /\ UNCHANGED <<wsClient, stream, streamErr, pump>>
                    \/ /\ writeLog' = Append(writeLog, "failed")
                       /\ flow' = FlowRead("failed")
                       /\ UNCHANGED <<sentFrames, wsClient, stream, streamErr, pump>>
  /\ UNCHANGED <<dictationVars, sideFrame, connected, waitI, dataClosed, frames>>

\* A mutant of StreamSelect: an error of WriteBinary is returned.
StreamSelect_WriteErrorReturns ==
  /\ Alive(Self)
  /\ stream = "streaming"
  /\ \/ /\ cancelled[Self] \/ streamCancelled          \* case <-ctx.Done()
        /\ wsClient' = "stopped"
        /\ stream' = "done"
        /\ streamErr' = "nil"
        /\ pump' = Returned("ctxDone", "nil", TRUE)
        /\ UNCHANGED <<dataChan, flow, sentFrames, writeLog>>
     \/ /\ dataChan = 0 /\ dataClosed                  \* case audioData, !ok
        /\ wsClient' = "stopped"
        /\ stream' = "done"
        /\ streamErr' = "nil"
        /\ pump' = Returned("closed", "nil", TRUE)
        /\ UNCHANGED <<dataChan, flow, sentFrames, writeLog>>
     \/ /\ dataChan > 0                                \* case audioData, ok
        /\ dataChan' = dataChan - 1
        /\ \E seen \in (IF stopRequested THEN BOOLEAN ELSE {FALSE}) :
             IF seen
               THEN /\ wsClient' = "stopped"
                    /\ stream' = "done"
                    /\ streamErr' = "nil"
                    /\ pump' = Returned("stopFlag", "nil", TRUE)
                    /\ flow' = FlowRead("discarded")
                    /\ UNCHANGED <<sentFrames, writeLog>>
               ELSE \/ /\ writeLog' = Append(writeLog, "ok")
                       /\ flow' = FlowRead("sent")
                       /\ sentFrames' = sentFrames + 1
                       /\ UNCHANGED <<wsClient, stream, streamErr, pump>>
                    \/ /\ writeLog' = Append(writeLog, "failed")
                       /\ flow' = FlowRead("failed")
                       /\ stream' = "done"
                       /\ streamErr' = "error"
                       /\ pump' = [cause |-> "writeErr", err |-> "error",
                                   stopped |-> FALSE, writes |-> Len(writeLog) + 1]
                       /\ UNCHANGED <<sentFrames, wsClient>>
  /\ UNCHANGED <<dictationVars, sideFrame, connected, waitI, dataClosed, frames>>

\* A mutant of StreamSelect: the loop only takes frames, and sees neither
\* the cancelled context nor the closed channel.
StreamSelect_OnlyFrames ==
  /\ Alive(Self)
  /\ stream = "streaming"
  /\ dataChan > 0                                      \* case audioData, ok
  /\ dataChan' = dataChan - 1
  /\ \E seen \in (IF stopRequested THEN BOOLEAN ELSE {FALSE}) :
       IF seen
         THEN /\ wsClient' = "stopped"
              /\ stream' = "done"
              /\ streamErr' = "nil"
              /\ pump' = Returned("stopFlag", "nil", TRUE)
              /\ flow' = FlowRead("discarded")
              /\ UNCHANGED <<sentFrames, writeLog>>
         ELSE \/ /\ writeLog' = Append(writeLog, "ok")
                 /\ flow' = FlowRead("sent")
                 /\ sentFrames' = sentFrames + 1
                 /\ UNCHANGED <<wsClient, stream, streamErr, pump>>
              \/ /\ writeLog' = Append(writeLog, "failed")
                 /\ flow' = FlowRead("failed")
                 /\ UNCHANGED <<sentFrames, wsClient, stream, streamErr, pump>>
  /\ UNCHANGED <<dictationVars, sideFrame, connected, waitI, dataClosed, frames>>

\* StartStreaming: one turn of the streaming loop.  The stop flag is written
\* by the callback's goroutine without synchronisation as well.  An error of
\* WriteBinary is logged and the loop goes on.
StreamSelect ==
  /\ Alive(Self)
  /\ stream = "streaming"
  /\ \/ /\ cancelled[Self] \/ streamCancelled          \* case <-ctx.Done()
        /\ wsClient' = "stopped"
        /\ stream' = "done"
        /\ streamErr' = "nil"
        /\ pump' = Returned("ctxDone", "nil", TRUE)
        /\ UNCHANGED <<dataChan, flow, sentFrames, writeLog>>
     \/ /\ dataChan = 0 /\ dataClosed                  \* case audioData, !ok
        /\ wsClient' = "stopped"
        /\ stream' = "done"
        /\ streamErr' = "nil"
        /\ pump' = Returned("closed", "nil", TRUE)
        /\ UNCHANGED <<dataChan, flow, sentFrames, writeLog>>
     \/ /\ dataChan > 0                                \* case audioData, ok
        /\ dataChan' = dataChan - 1
        /\ \E seen \in (IF stopRequested THEN BOOLEAN ELSE {FALSE}) :
             IF seen
               THEN /\ wsClient' = "stopped"
                    /\ stream' = "done"
                    /\ streamErr' = "nil"
                    /\ pump' = Returned("stopFlag", "nil", TRUE)
                    /\ flow' = FlowRead("discarded")
                    /\ UNCHANGED <<sentFrames, writeLog>>
               ELSE \/ /\ writeLog' = Append(writeLog, "ok")
                       /\ flow' = FlowRead("sent")
                       /\ sentFrames' = sentFrames + 1
                       /\ UNCHANGED <<wsClient, stream, streamErr, pump>>
                    \/ /\ writeLog' = Append(writeLog, "failed")
                       /\ flow' = FlowRead("failed")
                       /\ UNCHANGED <<sentFrames, wsClient, stream, streamErr, pump>>
  /\ UNCHANGED <<dictationVars, sideFrame, connected, waitI, dataClosed, frames>>

\* AudioStream.audioCallback: a frame goes to dataChan, or is dropped when
\* the channel is full.
audioCallback ==
  /\ Alive(Self)
  /\ audio = "started"
  /\ frames < MaxFrames
  /\ frames' = frames + 1
  /\ dataChan' = IF dataChan < DataChanCap THEN dataChan + 1 ELSE dataChan
  /\ flow' = IF dataChan < DataChanCap THEN FlowSend(frames + 1) ELSE FlowDrop(frames + 1)
  /\ callback' = CallbackIdle(IF dataChan < DataChanCap THEN "enqueued" ELSE "dropped",
                              callback.late)
  /\ UNCHANGED <<dictationVars, injectorCallVars, procVars, mode, audio, stopFailed,
                 streamCancelled, retErr, reported, closed, signals, wsClient, connected,
                 stream, waitI, dataClosed, sentFrames, streamErr, pump, writeLog, access, channels>>

\* The service sends the final transcript of audio it has received.
TranscriptEvent ==
  /\ Alive(Self)
  /\ connected
  /\ wsClient = "created"
  /\ sentFrames > 0
  /\ \E t \in SessionTranscripts : Message(<<t>>, TRUE)
  /\ UNCHANGED <<sideFrame, wsClient, connected, stream, waitI, dataChan, flow, dataClosed,
                 frames, sentFrames, streamErr, pump, writeLog>>

(***************************************************************************)
(* The AudioStream by itself: audioCallback in its two steps (the look at  *)
(* a.ctx, then the send with its 10 ms timeout), a reader of dataChan, and *)
(* Stop in its two steps (a.cancel(), then stream.Stop, stream.Close and   *)
(* close(dataChan)).  PortAudio's Stop returns when no callback is running.*)
(***************************************************************************)
audioFrame == <<dictationVars, injectorCallVars, procVars, mode, stopFailed, wsClient,
                connected, stream, waitI, sentFrames, streamCancelled, streamErr, retErr,
                reported, closed, signals, pump, writeLog, access, channels>>

\* audioCallback is called with a frame: with a.ctx cancelled it returns,
\* otherwise it converts the frame and goes on to send it.
CallbackEnter ==
  /\ audio \in {"started", "stopping"}
  /\ callback.at = "idle"
  /\ frames < MaxCallbacks
  /\ frames' = frames + 1
  /\ callback' = IF audio = "stopping"
                   THEN CallbackIdle("skipped", callback.late)
                   ELSE [callback EXCEPT !.at = "sending"]
  /\ UNCHANGED <<audioFrame, audio, dataChan, flow, dataClosed>>

\* A mutant of CallbackSend: the frame is sent whether or not there is room.
CallbackSend_NoLimit ==
  /\ callback.at = "sending"
  /\ dataChan' = dataChan + 1
  /\ flow' = FlowSend(frames)
  /\ callback' = CallbackIdle("enqueued", callback.late \/ audio = "stopping")
  /\ UNCHANGED <<audioFrame, audio, frames, dataClosed>>

\* audioCallback: case a.dataChan <- audioBytes, taken when the channel has
\* room.  This select does not look at a.ctx.
CallbackSend ==
  /\ callback.at = "sending"
  /\ dataChan < DataChanCap
  /\ dataChan' = dataChan + 1
  /\ flow' = FlowSend(frames)
  /\ callback' = CallbackIdle("enqueued", callback.late \/ audio = "stopping")
  /\ UNCHANGED <<audioFrame, audio, frames, dataClosed>>

\* audioCallback: case <-time.After(10 * time.Millisecond), reached when the
\* channel had no room for 10 ms: the frame is dropped.
CallbackTimeout ==
  /\ callback.at = "sending"
  /\ dataChan = DataChanCap
  /\ flow' = FlowDrop(frames)
  /\ callback' = CallbackIdle("dropped", callback.late)
  /\ UNCHANGED <<audioFrame, audio, frames, dataChan, dataClosed>>

\* The streaming loop takes a frame from GetDataChannel().
ReadFrame ==
  /\ dataChan > 0
  /\ dataChan' = dataChan - 1
  /\ flow' = FlowRead("taken")
  /\ UNCHANGED <<audioFrame, audio, frames, dataClosed, callback>>

\* AudioStream.Stop: a.cancel().
StopCancel ==
  /\ audio = "started"
  /\ audio' = "stopping"
  /\ UNCHANGED <<audioFrame, frames, dataChan, flow, dataClosed, callback>>

\* A mutant of StopStream: the channel is closed without waiting for the
\* call of audioCallback that is under way.
StopStream_NoWait ==
  /\ audio = "stopping"
  /\ audio' = "stopped"
  /\ dataClosed' = TRUE
  /\ UNCHANGED <<audioFrame, frames, dataChan, flow, callback>>

\* AudioStream.Stop: stream.Stop and stream.Close, then close(a.dataChan)
\* and portaudio.Terminate.
StopStream ==
  /\ audio = "stopping"
  /\ callback.at = "idle"
  /\ audio' = "stopped"
  /\ dataClosed' = TRUE
  /\ UNCHANGED <<audioFrame, frames, dataChan, flow, callback>>

(***************************************************************************)
(* The calls on the TranscriptionStack with their extent in time: Clear    *)
(* from StartRecording and AddPhrase from the Message callback, which the  *)
(* client's one listening goroutine calls for one message at a time.       *)
(***************************************************************************)
\* What a call on the stack leaves alone.
accessFrame == <<procVars, injectorCallVars, mode, audio, stopFailed, wsClient, connected,
                 stream, waitI, dataChan, flow, dataClosed, frames, sentFrames,
                 streamCancelled, streamErr, retErr, reported, closed, signals, pump,
                 writeLog, callback, channels>>

\* StartRecording calls s.transcription.Clear(), after NewDeepgramService.
ClearBegins ==
  /\ At("audioStart")
  /\ access.clear = "todo"
  /\ access' = [access EXCEPT !.clear = "running"]
  /\ UNCHANGED <<dictationVars, accessFrame>>

\* Clear returns.
ClearReturns ==
  /\ access.clear = "running"
  /\ SetStack(Clear(CurStack))
  /\ access' = [access EXCEPT !.clear = "done"]
  /\ UNCHANGED <<serviceVars, displayServer, availableTools, typeWorks, keyWorks,
                 events, last, snap, scen, accessFrame>>

\* A mutant of AccessAudioStart: StartRecording goes on as soon as Clear has
\* been called, without waiting for it to return.
AccessAudioStart_NoWait == access.clear # "todo" /\ AudioStart

\* StartRecording goes on to audioStream.Start when Clear has returned.
AccessAudioStart == access.clear = "done" /\ AudioStart

\* The client's listening goroutine calls Message with a final transcript.
MessageBegins ==
  /\ Alive(Self)
  /\ connected
  /\ wsClient = "created"
  /\ sentFrames > 0
  /\ events < MaxEvents
  /\ access.message = "idle"
  /\ access' = [access EXCEPT !.message = "running"]
  /\ UNCHANGED <<dictationVars, accessFrame>>

\* Message returns, after AddPhrase and the injector calls it makes.
MessageReturns ==
  /\ access.message = "running"
  /\ \E t \in SessionTranscripts : Message(<<t>>, TRUE)
  /\ access' = [access EXCEPT !.message = "idle"]
  /\ UNCHANGED accessFrame

(***************************************************************************)
(* Specifications.                                                         *)
(***************************************************************************)
Init ==
  /\ DictationInit(SessionConfigs)
  /\ ProcInit
  /\ calls = 0
  /\ ilast = NoCall
  /\ SessionRest({"hotkey"})

Next == FinalEvent \/ PartialEvent \/ EventNoAlternative \/ NewSession

\* One session's dictation.
Spec == Init /\ [][Next]_vars

InitToggle ==
  /\ DictationInit({c \in SessionConfigs : c.displayServer = "x11"})
  /\ ProcInit
  /\ calls = 0
  /\ ilast = NoCall
  /\ SessionRest({"hotkey"})

NextToggle == \E p \in Procs : ProcStep(p)

\* The hotkey pressed NumProcs times.
SpecToggle == InitToggle /\ [][NextToggle]_vars

\* The processes started with --stopkey; the others are started with --hotkey.
StopKeyProcs == {p \in Procs : p > NumProcs - StopKeys}

NextStopKey ==
  \/ \E p \in Procs \ StopKeyProcs : ProcStep(p)
  \/ \E p \in StopKeyProcs : StopKeyStep(p)

\* Processes started with --hotkey and with --stopkey, in every interleaving.
SpecStopKey == InitToggle /\ [][NextStopKey]_vars

\* The same processes, started when /tmp/voice_recording.lock may have been
\* left behind with a content that strconv.Atoi rejects (written as <<0>>:
\* no process has PID 0).  A lock file that names a dead process comes about
\* in the model itself, when its writer is killed before signal.Notify.
InitStale ==
  /\ DictationInit({c \in SessionConfigs : c.displayServer = "x11"})
  /\ pc = [p \in Procs |-> "notStarted"]
  /\ lock \in {<<>>, <<0>>}
  /\ handled = [p \in Procs |-> FALSE]
  /\ sigChan = [p \in Procs |-> <<>>]
  /\ handlerDone = [p \in Procs |-> FALSE]
  /\ cancelled = [p \in Procs |-> FALSE]
  /\ found = [p \in Procs |-> {}]
  /\ lockPid = [p \in Procs |-> 0]
  /\ recording = [p \in Procs |-> FALSE]
  /\ initializing = [p \in Procs |-> FALSE]
  /\ duringRec = [p \in Procs |-> FALSE]
  /\ stopCause = [p \in Procs |-> "none"]
  /\ calls = 0
  /\ ilast = NoCall
  /\ SessionRest({"hotkey"})

SpecStale == InitStale /\ [][NextStopKey]_vars

InitSession ==
  /\ DictationInit({c \in SessionConfigs : c.displayServer = "x11"})
  /\ ProcInit
  /\ calls = 0
  /\ ilast = NoCall
  /\ SessionRest({"hotkey", "default"})

NextSession ==
  \/ LaunchSession \/ ExternalSignal
  \/ ToggleStat(Self) \/ WriteLock(Self) \/ SignalNotify(Self) \/ SignalGoroutine(Self)
  \/ StartRecording(Self) \/ NewAudioStream \/ AudioStart
  \/ MonitorCtxDone \/ MonitorStreamErr \/ MonitorTick
  \/ DeferStreamCancel \/ DeepgramClose \/ AudioStop \/ DeferFlags \/ SessionReturns
  \/ RemoveLock(Self)
  \/ NewWS \/ Open \/ WaitConnected \/ StreamSelect \/ audioCallback \/ TranscriptEvent

\* One session from the start of its process to its end.
SpecSession == InitSession /\ [][NextSession]_vars

\* The steps of the main goroutine from the monitoring loop to the end of
\* the process.
Teardown ==
  \/ MonitorCtxDone \/ MonitorStreamErr \/ MonitorTick
  \/ DeferStreamCancel \/ DeepgramClose \/ AudioStop \/ DeferFlags \/ SessionReturns
  \/ RemoveLock(Self)

\* One session, with a main goroutine that is scheduled again and again.
SpecSessionFair == SpecSession /\ WF_vars(Teardown)

\* The steps of the goroutine that runs StartStreaming.
StartStreamingSteps == NewWS \/ WaitConnected \/ StreamSelect

\* One session, with a StartStreaming goroutine that is scheduled again and
\* again as long as the process lives: the Sleep of the wait loop ends, and a
\* select with a ready case goes on.
SpecStreamFair == SpecSession /\ WF_vars(StartStreamingSteps)

\* Transcripts with text outside ASCII, breaks and the undo commands.
UndoTranscripts ==
  { "hello", "au café", "newline", "next paragraph",
    "undo that", "undo word", "undo last 2 words" }

UndoEvent ==
  /\ \E t \in UndoTranscripts : Message(<<t>>, TRUE)
  /\ UNCHANGED <<procVars, injectorCallVars, sessionVars>>

\* Dictation with real-time typing on X11 with every tool working.
SpecUndo == InitToggle /\ [][UndoEvent]_vars

\* Transcripts that ask for an undo of words, and a text to undo.
CountTranscripts ==
  { "one two three",
    "undo word", "undo last word", "Undo Last 3 Words", "undo last 1 word",
    "undo last 0 words", "undo last 12 words", "undo last 03 words",
    "please undo last 2 words now",
    "undo last one word", "undo last two words", "undo last three words",
    "undo last four words", "undo last five words", "undo last six words",
    "undo last seven words", "undo last eight words", "undo last nine words",
    "undo last ten words",
    "undo last eleven words", "undo last few words", "undo last  2 words",
    "undo last 99999999999999999999 words",
    "undo last two words no undo last three words" }

CountEvent ==
  /\ \E t \in CountTranscripts : Message(<<t>>, TRUE)
  /\ UNCHANGED <<procVars, injectorCallVars, sessionVars>>

\* Dictation of undo commands with real-time typing on X11.
SpecCount == InitToggle /\ [][CountEvent]_vars

\* A started AudioStream, with everything else at rest.
InitAudio ==
  /\ DictationInit({c \in SessionConfigs : c.displayServer = "x11"})
  /\ ProcInit
  /\ calls = 0
  /\ ilast = NoCall
  /\ audio = "started"
  /\ SessionRestButAudio({"default"})

NextAudio ==
  \/ CallbackEnter \/ CallbackSend \/ CallbackTimeout
  \/ ReadFrame \/ StopCancel \/ StopStream

SpecAudio == InitAudio /\ [][NextAudio]_vars

\* The steps that end a call of audioCallback.
CallbackEnds == CallbackSend \/ CallbackTimeout

\* The AudioStream with a callback thread that runs and a timer that fires.
SpecAudioFair == SpecAudio /\ WF_vars(CallbackEnds)

\* A session that streams: the lock file is written, the signal handler is
\* installed, the audio stream is started, the connection is open and
\* StartStreaming is in its loop; no frame has been captured yet.
InitFlow ==
  /\ DictationInit({c \in SessionConfigs : c.displayServer = "x11"})
  /\ pc = [p \in Procs |-> IF p = Self THEN "monitoring" ELSE "notStarted"]
  /\ lock = <<Self>>
  /\ handled = [p \in Procs |-> p = Self]
  /\ sigChan = [p \in Procs |-> <<>>]
  /\ handlerDone = [p \in Procs |-> FALSE]
  /\ cancelled = [p \in Procs |-> FALSE]
  /\ found = [p \in Procs |-> {}]
  /\ lockPid = [p \in Procs |-> 0]
  /\ recording = [p \in Procs |-> p = Self]
  /\ initializing = [p \in Procs |-> FALSE]
  /\ duringRec = [p \in Procs |-> FALSE]
  /\ stopCause = [p \in Procs |-> "none"]
  /\ calls = 0
  /\ ilast = NoCall
  /\ mode = "hotkey"
  /\ audio = "started"
  /\ callback = CallbackIdle("none", FALSE)
  /\ stopFailed = FALSE
  /\ wsClient = "created"
  /\ connected = TRUE
  /\ stream = "streaming"
  /\ waitI = 0
  /\ dataChan = 0
  /\ dataClosed = FALSE
  /\ frames = 0
  /\ sentFrames = 0
  /\ streamCancelled = FALSE
  /\ streamErr = "empty"
  /\ retErr = "none"
  /\ reported = FALSE
  /\ closed = FALSE
  /\ signals = 0
  /\ pump = NotReturned
  /\ writeLog = <<>>
  /\ flow = NoFlow
  /\ access = NoAccess
  /\ channels = NoChannels

\* The streaming loop, for MaxFrames calls of WriteBinary.
BoundedStreamSelect == Len(writeLog) < MaxFrames /\ StreamSelect

NextFlow ==
  \/ CallbackEnter \/ CallbackSend \/ CallbackTimeout
  \/ BoundedStreamSelect \/ StopCancel \/ StopStream

\* The audio callback, called up to MaxCallbacks times, against the streaming
\* loop: the channel fills up and frames are dropped.
SpecFlow == InitFlow /\ [][NextFlow]_vars

NextAccess ==
  \/ LaunchSession
  \/ ToggleStat(Self) \/ WriteLock(Self) \/ SignalNotify(Self)
  \/ StartRecording(Self) \/ NewAudioStream
  \/ ClearBegins \/ ClearReturns \/ AccessAudioStart
  \/ MonitorStreamErr \/ MonitorTick
  \/ DeferStreamCancel \/ DeepgramClose \/ AudioStop \/ DeferFlags \/ SessionReturns
  \/ RemoveLock(Self)
  \/ NewWS \/ Open \/ WaitConnected \/ StreamSelect \/ audioCallback
  \/ MessageBegins \/ MessageReturns

\* One session, with the calls on the TranscriptionStack taking time.
SpecAccess == InitSession /\ [][NextAccess]_vars

(***************************************************************************)
(* The channel count.  AudioStream.Start chooses the input device and the  *)
(* number of channels and writes the number back through a.config, which   *)
(* points into the Config the DeepgramService holds; StartStreaming reads  *)
(* it from there when it builds the connection options.                    *)
(***************************************************************************)
\* The devices PortAudio may list: an output-only device has no input channel.
ListedDevices ==
  [name : {"Jabra Speak", "USB Mic", "HDA Intel"}, max : 0..MaxChannels]

\* What DefaultInputDevice may return.
DefaultDevices == {d \in ListedDevices : d.max > 0}

\* The first listed device with an input channel whose name holds "jabra",
\* the default input device if there is none.
RECURSIVE inputDevice(_, _)
inputDevice(devices, default) ==
  IF devices = <<>> THEN default
  ELSE IF Head(devices).max > 0 /\ Contains(ToLower(Head(devices).name), "jabra")
         THEN Head(devices)
         ELSE inputDevice(Tail(devices), default)

finalChannels_NoUsbRule(device, requested) ==
  IF requested > device.max THEN device.max ELSE requested

\* The number of channels Start uses for a device.
finalChannels(device, requested) ==
  IF \/ Contains(ToLower(device.name), "usb")
     \/ Contains(ToLower(device.name), "jabra")
    THEN 1
    ELSE IF requested > device.max THEN device.max ELSE requested

\* AudioStream.Start up to OpenStream, which opens the device or fails.
StartOpen ==
  /\ channels.at = "created"
  /\ \E ok \in BOOLEAN :
       LET device == inputDevice(channels.devices, channels.default)
           n == finalChannels(device, channels.config)
       IN  channels' = [channels EXCEPT !.config = n,
                                        !.opened = IF ok THEN n ELSE 0,
                                        !.at = IF ok THEN "opened" ELSE "failed"]
  /\ UNCHANGED <<dictationVars, procVars, injectorCallVars, mode, audio, stopFailed,
                 wsClient, connected, stream, waitI, dataChan, flow, dataClosed, frames,
                 sentFrames, streamCancelled, streamErr, retErr, reported, closed,
                 signals, pump, writeLog, callback, access>>

StreamingOptions_ReadsRequest ==
  /\ channels.at = "opened"
  /\ channels' = [channels EXCEPT !.options = channels.requested, !.at = "sent"]
  /\ UNCHANGED <<dictationVars, procVars, injectorCallVars, mode, audio, stopFailed,
                 wsClient, connected, stream, waitI, dataChan, flow, dataClosed, frames,
                 sentFrames, streamCancelled, streamErr, retErr, reported, closed,
                 signals, pump, writeLog, callback, access>>

\* StartStreaming builds the options of the connection, after Start returned nil.
StreamingOptions ==
  /\ channels.at = "opened"
  /\ channels' = [channels EXCEPT !.options = channels.config, !.at = "sent"]
  /\ UNCHANGED <<dictationVars, procVars, injectorCallVars, mode, audio, stopFailed,
                 wsClient, connected, stream, waitI, dataChan, flow, dataClosed, frames,
                 sentFrames, streamCancelled, streamErr, retErr, reported, closed,
                 signals, pump, writeLog, callback, access>>

\* A session before Start, for every list of devices and requested count.
InitChannels ==
  /\ DictationInit({c \in SessionConfigs : c.displayServer = "x11" /\ c.realTimeTyping})
  /\ ProcInit
  /\ calls = 0
  /\ ilast = NoCall
  /\ audio = "none"
  /\ SessionRestButChannels({"default"})
  /\ \E ds \in {<<>>} \cup {<<d>> : d \in ListedDevices},
        df \in DefaultDevices, r \in 1..(MaxChannels + 1) :
       channels = [devices |-> ds, default |-> df, requested |-> r, config |-> r,
                   opened |-> 0, options |-> 0, at |-> "created"]

NextChannels == StartOpen \/ StreamingOptions

\* The channel count from the configuration to the connection options.
SpecChannels == InitChannels /\ [][NextChannels]_vars

\* A session that types as the transcripts arrive, in an installation where
\* the injector works and in one where no tool is installed.
InitDegraded ==
  /\ DictationInit({c \in SessionConfigs : c.realTimeTyping})
  /\ ProcInit
  /\ calls = 0
  /\ ilast = NoCall
  /\ SessionRest({"hotkey", "default"})

SpecDegraded == InitDegraded /\ [][NextAccess]_vars

\* Everything but the injector, at rest.
AtRest ==
  /\ phrases = <<>>
  /\ concatenated = ""
  /\ lastSentence = ""
  /\ stopRequested = FALSE
  /\ realTimeTyping = TRUE
  /\ events = 0
  /\ injOK = TRUE
  /\ last = [kind |-> "init", transcript |-> "", final |-> FALSE, count |-> 0, keys |-> 0]
  /\ snap = Before
  /\ scen = -1
  /\ ProcInit
  /\ SessionRest({"hotkey"})

InitInjector == InjectorInit /\ AtRest

NextInjector == TypeTextCall

\* MaxCalls calls of TypeText on one injector.
SpecInjector == InitInjector /\ [][NextInjector]_vars

(***************************************************************************)
(* Properties of the dictation machine.                                    *)
(***************************************************************************)
BreakMarkers == {"\n", "\n\n"}

\* The text on screen after typing every segment in order.
RECURSIVE Rendering(_)
Rendering(ph) == IF ph = <<>> THEN "" ELSE Head(ph) \o Rendering(Tail(ph))

\* The contents of the text segments, in order, joined.
RECURSIVE TextOnly(_)
TextOnly(ph) ==
  IF ph = <<>> THEN ""
  ELSE (IF Head(ph) \in BreakMarkers THEN "" ELSE Head(ph)) \o TextOnly(Tail(ph))

\* The words of the text segments, in order.
RECURSIVE WordsOf(_)
WordsOf(ph) ==
  IF ph = <<>> THEN <<>>
  ELSE (IF Head(ph) \in BreakMarkers THEN <<>> ELSE Fields(Head(ph)))
         \o WordsOf(Tail(ph))

Min(a, b) == IF a <= b THEN a ELSE b

Handled == last.final /\ last.kind \notin {"init", "clear", "ignored"}

StopPhrases == {"end voice", "stop recording", "end recording", "stop voice"}
LineBreakPhrases == {"newline", "new line"}
ParagraphBreakPhrases == {"new para", "next para", "new paragraph", "next paragraph"}

HasAny(s, ps) == \E q \in ps : Contains(s, q)

\* C1 (as claimed): with real-time typing and every injector call
\* succeeding, the text on screen is the rendering of the segment sequence.
C1_ScreenIsRendering ==
  (realTimeTyping /\ injOK) => screen = Rendering(phrases)

\* C2: after every operation the concatenated string is the in-order join of
\* the phrases that are not break markers.
C2_ConcatenatedIsTextJoin == concatenated = TextOnly(phrases)

\* An undo-words command has run out of buffer before reaching its count, on
\* a buffer that held a break marker.
C2_Witness ==
  /\ last.kind = "undoWords"
  /\ Len(snap.phrases) > 0
  /\ Len(WordsOf(snap.phrases)) < last.count
  /\ \E i \in DOMAIN snap.phrases : snap.phrases[i] \in BreakMarkers
  /\ phrases = <<>>

\* C5 (as claimed): the end-to-end scenario leaves "hello world\nthis is a"
\* on screen and "hello worldthis is a" in the buffer.
C5_ScenarioAsClaimed ==
  scen = Len(Scenario) =>
    /\ screen = "hello world\nthis is a"
    /\ concatenated = "hello worldthis is a"

\* C5 (amended): the end-to-end scenario removes the last two words: it
\* leaves "hello world\nthis is" on screen and "hello worldthis is" in the
\* buffer.
C5_ScenarioRemovesTwoWords ==
  scen = Len(Scenario) =>
    /\ screen = "hello world\nthis is"
    /\ concatenated = "hello worldthis is"

C5_Witness == scen = Len(Scenario) /\ last.transcript = "undo last 2 words"

\* C6: UndoWords(n) removes exactly min(n, words in the buffer) words, from
\* the end backwards, break markers not counted, and leaves no text segment
\* without words.
C6_UndoWordsRemovesMin ==
  last.kind = "undoWords" =>
    LET before == WordsOf(snap.phrases)
        k      == Min(last.count, Len(before))
    IN  /\ WordsOf(phrases) = SubSeq(before, 1, Len(before) - k)
        /\ \A i \in DOMAIN phrases :
             phrases[i] \notin BreakMarkers => Len(Fields(phrases[i])) > 0

\* Two words were asked for, a whole segment and a break marker went, and
\* words are left.
C6_Witness ==
  /\ last.kind = "undoWords"
  /\ last.count = 2
  /\ Len(WordsOf(snap.phrases)) > 2
  /\ Len(phrases) + 2 = Len(snap.phrases)
  /\ Len(WordsOf(phrases)) + 2 = Len(WordsOf(snap.phrases))

\* C7: UndoLast right after the append of a text segment restores the
\* segment sequence and the concatenated string of before the append.
C7_UndoLastRestores ==
  [][(last.kind = "text" /\ last'.kind = "undoThat" /\ events' = events + 1)
       => (phrases' = snap.phrases /\ concatenated' = snap.concatenated)]_vars

\* "undo that" has undone the append of " this is a test".
C7_Witness ==
  /\ last.kind = "undoThat"
  /\ snap.phrases = <<"hello world", " this is a test">>
  /\ phrases = <<"hello world">>
  /\ concatenated = "hello world"

\* C8: a text segment is appended with exactly one space before it when the
\* buffer is not empty and does not end in a break marker, and with none
\* otherwise; buffer and screen grow by exactly that.
C8_SpacingRule ==
  (Handled /\ last.kind = "text") =>
    LET n   == Len(snap.phrases)
        sep == IF n > 0 /\ snap.phrases[n] \notin BreakMarkers THEN " " ELSE ""
    IN  /\ ~HasPrefix(last.transcript, " ")
        /\ phrases = Append(snap.phrases, sep \o last.transcript)
        /\ concatenated = snap.concatenated \o sep \o last.transcript
        /\ (realTimeTyping /\ injOK) => screen = snap.screen \o sep \o last.transcript

\* Text was appended right after a paragraph break that an undo had uncovered.
C8_Witness ==
  /\ last.kind = "text"
  /\ Len(snap.phrases) = 1
  /\ snap.phrases[1] = "\n\n"
  /\ events = MaxEvents
  /\ phrases = <<"\n\n", "hello world">>

\* The outcome the fixed order of rules gives a transcript.
ExpectedKind(t) ==
  LET s == ToLower(t)
  IN  IF HasAny(s, StopPhrases) THEN "stop"
      ELSE IF Contains(s, "undo that") THEN "undoThat"
      ELSE IF Contains(s, "undo word")
                \/ (Contains(s, "undo last") /\ Contains(s, "word")) THEN "undoWords"
      ELSE IF HasAny(s, LineBreakPhrases) THEN "lineBreak"
      ELSE IF HasAny(s, ParagraphBreakPhrases) THEN "paragraphBreak"
      ELSE "text"

\* C9: a final transcript gets the outcome of the first matching rule in the
\* order stop, undo that, undo words, line break, paragraph break, text, and
\* that outcome alone is applied.
C9_FirstMatchingRule ==
  Handled =>
    /\ last.kind = ExpectedKind(last.transcript)
    /\ stopRequested = (snap.stopRequested \/ last.kind = "stop")
    /\ CASE last.kind = "stop" -> phrases = snap.phrases
         [] last.kind = "undoThat" ->
              phrases = SubSeq(snap.phrases, 1, Len(snap.phrases) - 1)
         [] last.kind = "undoWords" ->
              Len(WordsOf(phrases))
                = Len(WordsOf(snap.phrases))
                    - Min(last.count, Len(WordsOf(snap.phrases)))
         [] last.kind = "lineBreak" -> phrases = Append(snap.phrases, "\n")
         [] last.kind = "paragraphBreak" -> phrases = Append(snap.phrases, "\n\n")
         [] last.kind = "text" ->
              /\ Len(phrases) = Len(snap.phrases) + 1
              /\ TrimSpace(phrases[Len(phrases)]) = last.transcript
         [] OTHER -> FALSE

\* A transcript with a stop phrase and an undo phrase only requested the stop.
C9_Witness ==
  /\ last.kind = "stop"
  /\ last.transcript = "undo that and Stop Recording"
  /\ Len(phrases) > 0
  /\ stopRequested

\* C10: a final transcript that contains a stop phrase, in any case and
\* anywhere, sets the stop flag and changes neither the segments, nor the
\* concatenated string, nor the text on screen.
C10_StopPhraseOnlyStops ==
  (last.final /\ last.transcript # "" /\ HasAny(ToLower(last.transcript), StopPhrases)) =>
    /\ stopRequested
    /\ phrases = snap.phrases
    /\ concatenated = snap.concatenated
    /\ screen = snap.screen

\* The stop phrase arrived inside a longer sentence, on a buffer with text.
C10_Witness ==
  /\ last.final
  /\ last.transcript = "okay let's end voice now"
  /\ Len(snap.phrases) > 0
  /\ ~snap.stopRequested
  /\ stopRequested

\* C11: a transcript event that is not final is ignored: it changes neither
\* the segment sequence, nor the concatenated string, nor the stop flag, and
\* nothing is typed.
C11_PartialEventsIgnored ==
  (~last.final /\ last.kind \notin {"init", "clear"}) =>
    /\ last.kind = "ignored"
    /\ phrases = snap.phrases
    /\ concatenated = snap.concatenated
    /\ stopRequested = snap.stopRequested
    /\ screen = snap.screen

\* A partial transcript with a stop phrase and an undo phrase arrived on a
\* buffer with text and left it alone.
C11_Witness ==
  /\ ~last.final
  /\ last.kind = "ignored"
  /\ last.transcript = "stop voice and undo that"
  /\ Len(phrases) > 0
  /\ ~stopRequested

(***************************************************************************)
(* Properties of the injector.                                             *)
(***************************************************************************)
\* The typing tools in the order of preference of a display server.
PreferredTyping(d) ==
  IF d = "wayland" THEN <<"wtype", "ydotool", "xdotool">>
                   ELSE <<"xdotool", "wtype", "ydotool">>

\* The runs of one kind in a log, in order.
RunsOf(log, what) ==
  LET Is(x) == x[1] = what
      sel == SelectSeq(log, Is)
  IN  [i \in DOMAIN sel |-> sel[i][2]]

\* The position of the first run of a kind in a log, 0 when there is none.
FirstRun(log, what) ==
  IF \E i \in DOMAIN log : log[i][1] = what
    THEN CHOOSE i \in DOMAIN log :
           log[i][1] = what /\ \A j \in 1..(i - 1) : log[j][1] # what
    ELSE 0

\* C17 (as claimed): a TypeText call made in silent mode runs no typing tool
\* and performs no clipboard operation.
C17_SilentModeSkips ==
  (calls > 0 /\ ilast.silentBefore) => ilast.log = <<>>

\* C18: TypeText of a non-empty text runs the installed typing tools in the
\* order of preference of the display server and stops at the first that
\* succeeds; it goes to the clipboard only when no typing tool succeeded, and
\* enters silent mode only when the paste of the same call failed too.
C18_FallbackOrder ==
  (calls > 0 /\ ilast.text # "") =>
    LET Installed(t) == t \in availableTools
        installed == SelectSeq(PreferredTyping(displayServer), Installed)
        typed     == RunsOf(ilast.log, "type")
        n         == Len(typed)
        direct    == n > 0 /\ typed[n] \in typeWorks
        clip      == FirstRun(ilast.log, "clipboard")
        pasted    == \E i \in DOMAIN ilast.log :
                       ilast.log[i][1] = "key" /\ ilast.log[i][2] \in keyWorks
    IN  /\ n <= Len(installed)
        /\ typed = SubSeq(installed, 1, n)
        /\ \A i \in 1..(n - 1) : typed[i] \notin typeWorks
        /\ ~direct => n = Len(installed)
        /\ direct => (Len(ilast.log) = n /\ ilast.ok)
        /\ clip > 0 => (~direct /\ clip = n + 1)
        /\ (~direct /\ ClipboardAvailable) => clip > 0
        /\ ilast.ok = (direct \/ pasted)
        /\ silentMode = (ilast.silentBefore \/ (~direct /\ ~pasted))

\* The first typing tool failed, the second typed the text, and the clipboard
\* was left alone.
C18_Witness ==
  /\ calls > 0
  /\ ilast.text = "hi"
  /\ ilast.log = <<<<"type", "wtype">>, <<"type", "xdotool">>>>
  /\ ilast.ok
  /\ ~silentMode

\* C19 (as claimed): after a clipboard round-trip the clipboard holds what it
\* held before the round-trip.
C19_ClipboardRestored ==
  (calls > 0 /\ FirstRun(ilast.log, "clipboard") > 0) => clipboard = ilast.clipBefore

(***************************************************************************)
(* Properties of the hotkey toggle.                                        *)
(***************************************************************************)
\* A process is in an active recording session: Initializing or Recording.
InSession(p) == Alive(p) /\ (initializing[p] \/ recording[p])

\* C3 (as claimed): at no time are two processes in an active recording
\* session.
C3_AtMostOneSession ==
  \A p, q \in Procs : (InSession(p) /\ InSession(q)) => p = q

\* C4 (as claimed): a process launched by a toggle while a session was
\* Recording writes no lock file and starts no session.  Sessions that ended
\* of themselves (the stream ended, a stop phrase was spoken) are left out:
\* the only way a session ends here is the signal handler's cancel().
C4_SecondToggleOnlyStops ==
  \A p \in Procs :
    (duringRec[p] /\ \A q \in Procs : stopCause[q] \in {"none", "ctxDone"}) =>
      pc[p] \notin {"notify", "startRecording", "audioInit", "monitor", "removeLock"}

(***************************************************************************)
(* Properties of one session.                                              *)
(***************************************************************************)
\* The process of the session has ended.
Ended == pc[Self] \in {"exited", "killed"}

\* C12 (as claimed): once the process of a hotkey session has ended, by a
\* return or by a signal, the lock file no longer exists.
C12_LockGoneAtEnd == (mode = "hotkey" /\ Ended) => lock = <<>>

\* C13 (as claimed): while the session is Initializing or Recording, the lock
\* file exists and holds the PID of the session's process.
C13_LockHeldInSession == InSession(Self) => lock = <<Self>>

\* C14 (as claimed): teardown stops the TranscriptClient before it stops the
\* AudioSource, so once the AudioSource has been stopped no TranscriptClient
\* is still running.
C14_ClientStoppedBeforeAudio == audio = "stopped" => wsClient # "created"

\* An error of NewAudioStream or of audioStream.Start has been returned.
AudioFailed == retErr \in {"audioInit", "audioStart"}

\* C15: when audio initialization or audio start fails, no transcription
\* connection is opened and no audio is sent; once StartRecording has
\* returned, recording and initializing are false; the error is reported
\* before the process ends, and at its end the lock file is gone.
C15_AudioErrorAborts ==
  AudioFailed =>
    /\ wsClient = "nil" /\ ~connected /\ stream = "off" /\ sentFrames = 0
    /\ pc[Self] \in {"returned", "removeLock", "exited"} =>
         ~recording[Self] /\ ~initializing[Self]
    /\ pc[Self] \in {"removeLock", "exited"} => reported
    /\ Ended => pc[Self] = "exited" /\ lock = <<>>

\* C15 happens: a hotkey session whose audio stream failed to start has ended.
C15_Witness ==
  /\ mode = "hotkey"
  /\ retErr = "audioStart"
  /\ pc[Self] = "exited"
  /\ closed /\ audio = "stopped"
  /\ reported /\ lock = <<>>

\* C16: the streaming loop is entered, and an audio frame is written to the
\* service, only after the Open callback has set the connected flag.
C16_NoAudioBeforeOpen == (stream = "streaming" \/ sentFrames > 0) => connected

\* C16 happens: the wait loop found the connection not yet open, frames were
\* captured, and a frame has been written.
C16_Witness == sentFrames > 0 /\ waitI > 0 /\ frames = MaxFrames

\* The session has left Recording and its teardown is complete.
TornDown ==
  /\ pc[Self] = "exited"
  /\ ~recording[Self] /\ ~initializing[Self]
  /\ closed
  /\ audio = "stopped"
  /\ lock = <<>>

\* C20: once the stop flag has been set by a stop phrase while the session
\* is in its monitoring loop, the session is eventually torn down.
C20_StopPhraseEndsSession == (stopRequested /\ At("monitoring")) ~> TornDown

\* C20 happens: the stop phrase has been received, every frame has been
\* consumed and no further frame arrives, so the streaming loop is blocked
\* and no signal has cancelled the context.
C20_Witness ==
  /\ stopRequested
  /\ At("monitoring")
  /\ stream = "streaming"
  /\ frames = MaxFrames /\ dataChan = 0
  /\ ~cancelled[Self]
  /\ last.transcript = "stop voice"

\* StartRecording has returned to runSingleSession.
StartRecordingReturned == pc[Self] \in {"returned", "removeLock", "exited"}

\* C21: when the streaming loop returns for a cancelled context, a closed
\* audio channel or the stop flag, the condition holds, the loop has stopped
\* the client and returned nil, and no frame is written afterwards.
C21_PumpLoopEndsCleanly ==
  /\ pump.cause = "ctxDone" => (cancelled[Self] \/ streamCancelled)
  /\ pump.cause = "closed" => (dataClosed /\ dataChan = 0)
  /\ pump.cause = "stopFlag" => stopRequested
  /\ pump.cause \in {"ctxDone", "closed", "stopFlag"} =>
       /\ pump.err = "nil" /\ pump.stopped
       /\ wsClient = "stopped"
       /\ stream = "done"
       /\ Len(writeLog) = pump.writes

\* C21 happens: the loop wrote a frame and then returned on the stop flag,
\* with another frame captured since.
C21_Witness ==
  /\ pump.cause = "stopFlag"
  /\ pump.writes > 0
  /\ frames = MaxFrames
  /\ ~cancelled[Self]

\* C23: a failed write of a frame changes nothing but the queue: the loop
\* goes on streaming, the client is not stopped, nothing is sent to
\* streamErr and the session's process stays where it is.
C23_WriteErrorGoesOn ==
  [][Len(writeLog') > Len(writeLog) /\ writeLog'[Len(writeLog')] = "failed" =>
       /\ stream' = "streaming"
       /\ dataChan' = dataChan - 1
       /\ UNCHANGED <<wsClient, streamErr, pump, pc, recording, retErr, cancelled,
                      streamCancelled, audio>>]_vars

\* C23 happens: the write of a frame failed and the next frame was sent.
C23_Witness == writeLog = <<"failed", "ok">> /\ stream = "streaming" /\ At("monitoring")

\* C24 (as claimed): when the wait for the open confirmation ran out,
\* StartRecording returns a non-nil error.
C24_TimeoutReturnsError ==
  (pump.cause = "timeout" /\ StartRecordingReturned) => retErr \notin {"none", "nil"}

\* C24 (amended): when the wait for the open confirmation ran out,
\* StartStreaming has returned an error without a write of audio; when the
\* monitoring loop received that error, StartRecording returned the
\* streaming error after the teardown; otherwise a signal had cancelled the
\* session and StartRecording returned nil after the same teardown.
C24_TimeoutIsFatal ==
  pump.cause = "timeout" =>
    /\ pump.err = "error" /\ writeLog = <<>> /\ sentFrames = 0
    /\ stream = "done"
    /\ StartRecordingReturned =>
         /\ closed /\ audio = "stopped" /\ ~recording[Self]
         /\ IF stopCause[Self] = "streamErr"
              THEN retErr = "streaming"
              ELSE stopCause[Self] = "ctxDone" /\ retErr = "nil" /\ cancelled[Self]

\* C24 happens: the wait ran out with frames captured, and the process has
\* ended having reported the streaming error.
C24_Witness ==
  /\ pump.cause = "timeout"
  /\ frames > 0
  /\ pc[Self] = "exited"
  /\ retErr = "streaming" /\ reported

(***************************************************************************)
(* Properties of the AudioStream.                                          *)
(***************************************************************************)
\* C22 (as claimed): no frame is enqueued once a.ctx has been cancelled.
C22_NothingAfterCancel == ~callback.late

\* The channel never holds more than its capacity, and a call of
\* audioCallback that is sending can take a step: the send when there is
\* room, the timeout when there is none.
QueueBounded ==
  /\ dataChan <= DataChanCap
  /\ (callback.at = "sending" /\ dataChan < DataChanCap) => ENABLED CallbackSend
  /\ (callback.at = "sending" /\ dataChan = DataChanCap) => ENABLED CallbackTimeout

\* What a call of audioCallback does with its frame.
CallbackStep ==
  /\ (callback.at = "idle" /\ callback'.at = "idle" /\ frames' = frames + 1) =>
       (audio = "stopping" /\ callback'.last = "skipped" /\ dataChan' = dataChan)
  /\ (callback.at = "sending" /\ callback'.at = "idle") =>
       IF dataChan = DataChanCap
         THEN callback'.last = "dropped" /\ dataChan' = dataChan
         ELSE callback'.last = "enqueued" /\ dataChan' = dataChan + 1
  /\ (callback.at = "idle" /\ callback'.at = "sending") => audio = "started"

\* C22 (amended): a call of audioCallback always ends: with room in the
\* channel it enqueues its frame, with a full channel it drops the frame at
\* the timeout; the channel never holds more than 100 frames; a call that
\* starts after a.ctx was cancelled enqueues nothing.
C22_CallbackNeverBlocks ==
  /\ []QueueBounded
  /\ [][CallbackStep]_vars
  /\ (callback.at = "sending") ~> (callback.at = "idle")

\* C22 happens: a frame was dropped at a full channel with a.ctx live.
C22_Witness ==
  /\ callback = CallbackIdle("dropped", FALSE)
  /\ dataChan = DataChanCap
  /\ audio = "started"

(***************************************************************************)
(* Properties of the stop key and of the lock file.                        *)
(***************************************************************************)
\* Process p is in handleGracefulStop.
InGracefulStop(p) == pc[p] \in {"gracefulRead", "gracefulKill"}

\* What the steps of a process started with --stopkey do.
StopKeyEffect(p) ==
  /\ InGracefulStop(p) =>
       /\ pc'[p] \in {"gracefulRead", "gracefulKill", "exited", "killed"}
       /\ recording'[p] = recording[p] /\ initializing'[p] = initializing[p]
  /\ (pc[p] = "gracefulRead" /\ pc'[p] \in {"gracefulKill", "exited"}) =>
       /\ lock' = lock
       /\ sigChan' = sigChan
       /\ \A q \in Procs \ {p} : pc'[q] = pc[q]
       /\ IF lock = <<>>
            THEN pc'[p] = "exited"
            ELSE pc'[p] = "gracefulKill" /\ lockPid'[p] = lock[1]
  /\ (pc[p] = "gracefulKill" /\ pc'[p] = "exited") =>
       /\ lock' = lock
       /\ \A q \in Procs \ {p, lockPid[p]} : pc'[q] = pc[q] /\ sigChan'[q] = sigChan[q]

\* C25: a process started with --stopkey starts no session and changes no
\* lock file; without a lock file it sends no signal; with one it sends a
\* signal to the PID it read from the lock file and to no other process.
C25_StopKeyOnlySignals == [][\A p \in Procs : StopKeyEffect(p)]_vars

\* C25 happens: a stop key has sent SIGUSR1 to the session named in the lock
\* file, which is still in place, while a third process was running.
C25_Witness ==
  \E p, q, r \in Procs :
    /\ p # q /\ r \notin {p, q}
    /\ pc[p] = "exited" /\ lockPid[p] = q
    /\ sigChan[q] = <<"SIGUSR1">>
    /\ lock = <<q>>
    /\ Alive(r)

(***************************************************************************)
(* Properties of the deletions.                                            *)
(***************************************************************************)
\* The last event was handled with real-time typing and every injector call
\* so far succeeded.
TypedOK == realTimeTyping /\ injOK

\* C26 (as claimed): "undo that" on a non-empty buffer sends one backspace
\* for a line break, two for a paragraph break, and for a text segment as
\* many backspaces as the segment has characters.
C26_UndoLastExact ==
  (last.kind = "undoThat" /\ TypedOK /\ snap.phrases # <<>>) =>
    LET removed == snap.phrases[Len(snap.phrases)]
    IN  last.keys = IF removed = "\n" THEN 1
                    ELSE IF removed = "\n\n" THEN 2
                    ELSE Len(removed)

\* C27 (as claimed): an undo of words on a non-empty buffer sends as many
\* backspaces as characters were removed from the text segments.
C27_UndoWordsCount ==
  (last.kind = "undoWords" /\ TypedOK /\ snap.phrases # <<>>) =>
    last.keys = Len(Rendering(SelectSeq(snap.phrases, notBreak)))
                  - Len(Rendering(SelectSeq(phrases, notBreak)))

(***************************************************************************)
(* Further properties of one session.                                      *)
(***************************************************************************)
\* C28 (as claimed): while the session is Recording with initializing
\* cleared, the AudioSource has started and the TranscriptClient's connection
\* has been confirmed open.
C28_ReadyOnlyWhenOpen ==
  (At("monitoring") /\ recording[Self] /\ ~initializing[Self]) =>
    (audio = "started" /\ connected)

\* C29 (as claimed): once the stop flag is set, no step changes the buffer
\* or the screen.
C29_NothingAfterStop ==
  [][stopRequested => UNCHANGED <<phrases, concatenated, screen, clipboard>>]_vars

\* C30 (as claimed): a step that removes the lock file is the step of the
\* process the lock file names, or that process has ended.
C30_LockRemovedByOwner ==
  [][(lock # <<>> /\ lock' = <<>>) =>
       \/ ~Alive(lock[1])
       \/ pc[lock[1]] = "removeLock" /\ pc'[lock[1]] = "exited"]_vars

(***************************************************************************)
(* Stale lock files.                                                       *)
(***************************************************************************)
StopPath == {"stopRead", "stopKill", "stopRemove"}

\* C31: a toggle that finds a lock file without a PID removes it and exits
\* at once; a toggle that read the PID of a process that is gone removes the
\* lock file and exits; a process on this path never goes on to start a
\* session; and a toggle that finds no lock file goes on to write its own.
C31_StaleLockRemoved ==
  [][\A p \in Procs \ StopKeyProcs :
       /\ (/\ pc[p] = "stopRead" /\ pc'[p] \notin {"stopRead", "killed"}
           /\ lock # <<>> /\ lock[1] \notin Procs)
            => (lock' = <<>> /\ pc'[p] = "exited")
       /\ (/\ pc[p] = "stopRemove" /\ pc'[p] \notin {"stopRemove", "killed"}
           /\ ~Alive(lockPid[p]))
            => (lock' = <<>> /\ pc'[p] = "exited")
       /\ pc[p] \in StopPath
            => (pc'[p] \in StopPath \cup {"exited", "killed"} /\ ~InSession(p)')
       /\ (pc[p] = "stat" /\ pc'[p] \notin {"stat", "killed"} /\ lock = <<>>)
            => pc'[p] = "writeLock"]_vars

\* A toggle has removed a lock file without a PID and exited without a signal
\* handler, and a later toggle records under its own lock file.
C31_Witness ==
  \E p, q \in Procs \ StopKeyProcs :
    /\ p # q
    /\ pc[p] = "exited" /\ ~handled[p] /\ lockPid[p] = 0
    /\ pc[q] = "monitor" /\ recording[q] /\ lock = <<q>>

Increasing(s) == \A i \in 1..(Len(s) - 1) : s[i] < s[i + 1]

Elems(s) == {s[i] : i \in 1..Len(s)}

\* C33: the frames written are frames the callback was called with, in the
\* order of capture and each once; a frame that was dropped at a full channel
\* or whose send failed is neither written nor left in the channel.
C33_WrittenIsSubsequence ==
  /\ Increasing(flow.written)
  /\ Elems(flow.written) \subseteq 1..frames
  /\ flow.lost \cap Elems(flow.written) = {}
  /\ flow.lost \cap Elems(flow.queue) = {}
  /\ Increasing(flow.queue)
  /\ (flow.written # <<>> /\ flow.queue # <<>>) =>
       flow.written[Len(flow.written)] < Head(flow.queue)
  /\ Len(flow.queue) = dataChan

\* A frame was dropped at the full channel, the send of the first frame
\* failed, and the second frame was written after both.
C33_Witness ==
  /\ flow.written = <<2>>
  /\ 1 \in flow.lost
  /\ \E id \in flow.lost : id > DataChanCap
  /\ writeLog = <<"failed", "ok">>

(***************************************************************************)
(* Access to the TranscriptionStack and the TextInjector.                  *)
(***************************************************************************)
\* The state of the TranscriptionStack and of what the TextInjector acts on.
StackAndInjector == <<phrases, concatenated, lastSentence, silentMode, screen, clipboard>>

BufferWithoutTyping ==
  {<<r.st.phrases, r.st.concatenated, r.st.lastSentence>> :
     r \in AddPhrase(CurStack, last'.transcript, FALSE)}

\* C35: a step in which Message handles a transcript that is no stop phrase,
\* in a session in which an injector call has failed then or before, leaves
\* the stop flag, the goroutines, the client and the result of StartRecording
\* as they are, and leaves the buffer that AddPhrase builds for the transcript.
C35_FailureGoesOn ==
  [][(~injOK' /\ events' = events + 1 /\ last'.kind # "stop") =>
       /\ stopRequested' = stopRequested
       /\ <<pc, stream, wsClient, streamErr, retErr, recording, audio>>' =
            <<pc, stream, wsClient, streamErr, retErr, recording, audio>>
       /\ <<phrases, concatenated, lastSentence>>' \in BufferWithoutTyping]_vars

\* Every injection strategy failed for the first phrase; the session went on
\* and took the second phrase into the buffer, with the screen still empty.
C35_Witness ==
  /\ ~injOK
  /\ silentMode
  /\ phrases = <<"hello world", " hello world">>
  /\ screen = ""
  /\ ~stopRequested
  /\ stream = "streaming"
  /\ retErr = "none"

(***************************************************************************)
(* Undo on an empty buffer.                                                *)
(***************************************************************************)
\* C36: after "undo that" or an undo of words that found the buffer empty,
\* the buffer is empty, no key combination was run, and the screen, the
\* injector's mode and its record of failures are as before.
C36_UndoOnEmptyIsNoOp ==
  (last.kind \in {"undoThat", "undoWords"} /\ snap.phrases = <<>>) =>
    /\ phrases = <<>>
    /\ concatenated = ""
    /\ last.keys = 0
    /\ screen = snap.screen

\* "undo that" arrived at an empty buffer in a session that types with xdotool.
C36_Witness ==
  /\ last.kind = "undoThat"
  /\ snap.phrases = <<>>
  /\ realTimeTyping
  /\ "xdotool" \in keyWorks
  /\ events > 0

(***************************************************************************)
(* The word count of an undo of words.                                     *)
(***************************************************************************)
\* The counts claimed for transcripts with at most one count in them.
ClaimedCount ==
  { <<"undo word", 1>>, <<"undo last word", 1>>, <<"Undo Last 3 Words", 3>>,
    <<"undo last 1 word", 1>>, <<"undo last 0 words", 0>>, <<"undo last 12 words", 12>>,
    <<"undo last 03 words", 3>>, <<"please undo last 2 words now", 2>>,
    <<"undo last one word", 1>>, <<"undo last two words", 2>>,
    <<"undo last three words", 3>>, <<"undo last four words", 4>>,
    <<"undo last five words", 5>>, <<"undo last six words", 6>>,
    <<"undo last seven words", 7>>, <<"undo last eight words", 8>>,
    <<"undo last nine words", 9>>, <<"undo last ten words", 10>>,
    <<"undo last eleven words", 1>>, <<"undo last few words", 1>>,
    <<"undo last  2 words", 1>>, <<"undo last 99999999999999999999 words", 1>> }

\* C37: an undo of words is made with the count of its transcript: the
\* decimal number, the value of the spelled-out number from one to ten, and 1
\* for "undo word" and when no count can be read.
C37_WordCountParsed ==
  \A c \in ClaimedCount :
    last.transcript = c[1] => (last.kind = "undoWords" /\ last.count = c[2])

\* "undo last ten words" removed the three words of the buffer.
C37_Witness ==
  /\ last.transcript = "undo last ten words"
  /\ last.kind = "undoWords"
  /\ last.count = 10
  /\ snap.phrases = <<"one two three">>
  /\ phrases = <<>>

\* C40 (as claimed): the count of an undo of words is a function of the
\* lower-cased transcript: the evaluations of extractWordCountFromUndo on it
\* have one result.
C40_CountIsDeterministic ==
  last.kind = "undoWords" =>
    Cardinality(extractWordCountFromUndo(ToLower(last.transcript))) = 1

\* C38: the device is opened with one channel when the name of the chosen
\* device holds "usb" or "jabra" in any case, otherwise with the smaller of
\* the requested count and the device's input channels; the count in the
\* connection options is the count the device was opened with.
ChosenDevice == inputDevice(channels.devices, channels.default)

C38_ChannelsAgree ==
  /\ channels.at \in {"opened", "sent"} =>
       channels.opened = IF ChosenDevice.name \in {"Jabra Speak", "USB Mic"} THEN 1
                         ELSE Min(channels.requested, ChosenDevice.max)
  /\ channels.at = "sent" => channels.options = channels.opened

C38_Witness ==
  /\ channels.at = "sent"
  /\ ChosenDevice.name = "HDA Intel"
  /\ channels.requested > ChosenDevice.max
  /\ ChosenDevice.max > 1
  /\ channels.options = ChosenDevice.max
  /\ channels.devices # <<>>

\* The deferred calls of StartRecording have cancelled the stream's context
\* and closed the data channel, and the StartStreaming goroutine was started.
StreamTornDown == streamCancelled /\ dataClosed /\ stream # "off"

\* C39 (as claimed): once the session has been torn down, the StartStreaming
\* goroutine eventually returns, from the wait for the connection as well as
\* from the pump loop.
C39_GoroutineReturns == StreamTornDown ~> (stream = "done")

\* C39 (amended): once the session has been torn down, the StartStreaming
\* goroutine eventually returns unless the process ends first; it does not
\* run on in a process that lives.
C39_GoroutineReturnsOrProcessEnds == StreamTornDown ~> (stream = "done" \/ Ended)

\* C39 happens: after the teardown the goroutine has left the pump loop by
\* the closed channel, in a process that still runs.
C39_Witness ==
  /\ StreamTornDown
  /\ stream = "done"
  /\ pump.cause = "closed"
  /\ ~Ended
====
